---- MODULE Spec2Model ----
(***************************************************************************)
(* gpumon: the telemetry acquisition engine of src/gpumon.                 *)
(*   _plot.py     DataPlot, the bounded series                             *)
(*   _workers.py  subprocess_lifespan, subprocess_communicate, the CPU and *)
(*                memory pollers, the streaming dmon worker                *)
(*   _monitor.py  SystemMonitor, which constructs the six plots            *)
(*                                                                         *)
(* Numbers that Python holds as float are held in tenths, so 4.5           *)
(* is 45 and the integer 100 stored in a float field is 1000.              *)
(* Optional values: None is <<>> and a present value v is <<v>>.           *)
(***************************************************************************)
EXTENDS Integers, Sequences, FiniteSets, TLC

VARIABLES
    plots,          \* plot id -> DataPlot fields (data, maxlen, value_formatter, y_upper_lim)
    now,            \* the last reading of datetime.now()
    appended,       \* history: every point update_data was given, per plot, by the API client
    firstFormatter, \* history: the formatter of the client's first set_value_formatter call
    firstUpperLim,  \* history: the value of the client's first set_y_upper_lim call
    written,        \* the entries the last step wrote to the RichLog
    max_retries,    \* the max_retries argument of the two pollers
    poll_pc,        \* poller -> "idle" (not started), "run" (in a sample cycle),
                    \*   "sleep" (in asyncio.sleep), "raised" (ended by an exception)
    retries,        \* poller -> its local retries
    raised,         \* poller -> the exceptions its task raised to the supervisor
    consec,         \* history: poller -> failed sample cycles since its last successful one
    sess,           \* session name -> the asyncio.subprocess.Process of its subprocess_lifespan
    scope,          \* session name -> where its subprocess_lifespan scope is and how it was left
    outcome,        \* session name -> how the coroutine that opened it ended
    dmon_pc,        \* poll_dmon_stats: "idle", "start", "gather", "wait", "done"
    child_pc,       \* read loop -> "none", "read" (in readline), "done", "raised", "cancelled"
    parse_error_count,  \* the local of consume_stdout
    cancel_requested,   \* the supervisor called cancel() on the task of poll_dmon_stats
    warned,         \* history: consume_stdout has logged its parse-error warning
    probe_pc,       \* subprocess_communicate: "idle", "communicate", "wait", "done"
    probe_stdout,   \* the stdout bytes communicate returned to the last call, if it returned
    probe_result,   \* what the last subprocess_communicate call returned
    proc_table,     \* the rows of the process DataTable
    info_pc,        \* update_info_panel: "idle", "start", "communicate", "done"
    info_panel,     \* the content of the info panel below the system line
    info_output,    \* the stdout bytes communicate returned to update_info_panel
    app             \* the Textual application: "running" or "exited"

clientVars == <<appended, firstFormatter, firstUpperLim>>
pollVars == <<max_retries, poll_pc, retries, raised, consec>>
sessVars == <<sess, scope, outcome>>
dmonVars == <<dmon_pc, child_pc, parse_error_count, cancel_requested, warned>>
probeVars == <<probe_pc, probe_stdout, probe_result, proc_table>>
infoVars == <<info_pc, info_panel, info_output>>

vars ==
    <<plots, now, written, clientVars, pollVars, sessVars, dmonVars, probeVars,
      infoVars, app>>

----------------------------------------------------------------------------
\* Bounds of the model.

\* largest history_size a DataPlot is constructed with
MaxCap == 2
\* most update_data calls the API client makes on its plot
MaxAppends == 4
\* last instant of the clock; datetime.now() stays there once it is reached
MaxClock == 1
\* history_size of the plots the dmon worker feeds
DmonCap == 1

\* a whole number as a float value: in tenths
Tenths(n) == n * 10

None == <<>>
Some(v) == <<v>>

Min(a, b) == IF a <= b THEN a ELSE b

\* an entry of the RichLog: the fixed text of the log.write call and the text
\* it interpolates
LogEntry(text, detail) == <<text, detail>>

----------------------------------------------------------------------------
\* _plot.py

\* The formatter closures, by the factory call that makes them.
percent_formatter == <<"percent_formatter", TRUE>>
unit_formatter(unit) == <<"unit_formatter", unit>>
memory_formatter(total_bytes) == <<"memory_formatter", total_bytes>>

PlotIds ==
    {"gpu_utilization", "gpu_memory", "gpu_power", "gpu_temperature",
     "cpu_usage", "sys_memory"}

\* DataPlot.__init__: an empty deque(maxlen=history_size) and the two display fields.
DataPlot(history_size, value_formatter, y_upper_lim) ==
    [data |-> <<>>, maxlen |-> history_size,
     value_formatter |-> value_formatter, y_upper_lim |-> y_upper_lim]

\* SystemMonitor.__init__: the six plots, each with the same history_size.
MonitorPlots(history_size) ==
    [p \in PlotIds |->
        CASE p = "gpu_utilization" ->
                DataPlot(history_size, Some(percent_formatter), Some(Tenths(100)))
          [] p = "gpu_memory" ->
                DataPlot(history_size, None, Some(Tenths(100)))
          [] p = "gpu_power" ->
                DataPlot(history_size, Some(unit_formatter("W")), None)
          [] p = "gpu_temperature" ->
                DataPlot(history_size, Some(unit_formatter("C")), None)
          [] p = "cpu_usage" ->
                DataPlot(history_size, Some(percent_formatter), Some(Tenths(100)))
          [] OTHER ->
                DataPlot(history_size, None, Some(Tenths(100)))]

\* mutant: the property never reports a formatter
formatter_is_set_never(plot) == FALSE

\* DataPlot.formatter_is_set
formatter_is_set(plot) == plot.value_formatter # None

\* deque.append on a deque(maxlen=n): push right, then discard from the left
\* while the deque is longer than n.
RECURSIVE DequeTrim(_, _)
DequeTrim(d, maxlen) ==
    IF Len(d) > maxlen THEN DequeTrim(Tail(d), maxlen) ELSE d

\* mutant: a full deque discards the new point instead of the oldest one
DequeAppendKeepOldest(d, x, maxlen) ==
    IF Len(d) >= maxlen THEN d ELSE Append(d, x)

DequeAppend(d, x, maxlen) == DequeTrim(Append(d, x), maxlen)

\* mutant: the point is put at the front of the deque (appendleft), which then
\* discards from the back
update_data_appendleft(plot, t, value) ==
    [plot EXCEPT !.data =
        SubSeq(<<(<<t, value>>)>> \o plot.data, 1,
               IF Len(plot.data) + 1 > plot.maxlen THEN plot.maxlen ELSE Len(plot.data) + 1)]

\* DataPlot.update_data: append (datetime.now(tz), value); draw_plot and refresh
\* render from data and leave the fields alone.
update_data(plot, t, value) ==
    [plot EXCEPT !.data = DequeAppend(plot.data, <<t, value>>, plot.maxlen)]

\* DataPlot.set_value_formatter
set_value_formatter(plot, formatter) ==
    [plot EXCEPT !.value_formatter = Some(formatter)]

\* DataPlot.set_y_upper_lim
set_y_upper_lim(plot, upper) ==
    [plot EXCEPT !.y_upper_lim = Some(upper)]

\* datetime.now(): a clock that does not go backwards; a reading is the last
\* reading or later.
ClockReadingsFrom(t) == {u \in t .. t + 1 : u <= MaxClock}

ClockReadings == ClockReadingsFrom(now)

\* The monitor as constructed: the six plots empty, nothing logged, no call made.
InitPlots(history_size) ==
    /\ plots = MonitorPlots(history_size)
    /\ now = 0
    /\ written = <<>>
    /\ appended = <<>>
    /\ firstFormatter = None
    /\ firstUpperLim = None

----------------------------------------------------------------------------
\* _workers.py: poll_cpu_percent and poll_memory_percent

\* default of the max_retries parameter
DefaultMaxRetries == 3
\* largest max_retries the pollers are started with
MaxRetriesArg == 3

Pollers == {"poll_cpu_percent", "poll_memory_percent"}

\* the plot on_mount hands to each poller
PollerPlot(w) == IF w = "poll_cpu_percent" THEN "cpu_usage" ELSE "sys_memory"

\* psutil.cpu_percent() and psutil.virtual_memory().percent, in tenths
SampleValues == {125, 990}
\* psutil.virtual_memory().total, in GB
MemTotals == {8, 16}

\* The pollers in `started` have been handed to run_worker and are in their first
\* pass; the others were never started ("idle").
InitPollers(mr, started) ==
    /\ max_retries = mr
    /\ poll_pc = [w \in Pollers |-> IF w \in started THEN "run" ELSE "idle"]
    /\ retries = [w \in Pollers |-> 0]
    /\ raised = [w \in Pollers |-> <<>>]
    /\ consec = [w \in Pollers |-> 0]

\* The try body of a cycle: what the plot holds when the body ends, or when it
\* raises after the sample was taken (update_data appends before it renders).
PollBody(w, plot, t, value, total) ==
    IF w = "poll_cpu_percent"
    THEN update_data(plot, t, value)
    ELSE update_data(
            IF ~formatter_is_set(plot)
            THEN set_value_formatter(plot, memory_formatter(total))
            ELSE plot,
            t, value)

\* the exception a poller raises at retry exhaustion: poll_cpu_percent raises
\* SysMonitorWorkerError from e, poll_memory_percent re-raises e
TerminalError(w) ==
    IF w = "poll_cpu_percent" THEN "SysMonitorWorkerError" ELSE "Exception"

TerminalLog(w) ==
    IF w = "poll_cpu_percent"
    THEN LogEntry("CPU polling failed too many times, stopping.", <<>>)
    ELSE LogEntry("Memory polling failed too many times, stopping.", <<>>)

ErrorLog(w) ==
    IF w = "poll_cpu_percent"
    THEN LogEntry("CPU Polling error:", <<"e">>)
    ELSE LogEntry("Memory Polling error:", <<"e">>)

\* mutant: a successful cycle resets the counter
RetriesAfterSuccessReset(r) == 0

\* retries after a cycle whose try body did not raise: the code leaves it alone
RetriesAfterSuccess(r) == r

\* mutant: the threshold test gives up one failure early
RetryExhaustedEarly(r, mr) == r + 1 >= mr

\* mutant: the threshold test is off by one
RetryExhaustedLate(r, mr) == r > mr

\* the test `retries >= max_retries` of the except clause
RetryExhausted(r, mr) == r >= mr

\* One pass of `while True`, from the try to the await of asyncio.sleep, whose
\* try body ends without an exception.
PollCycleOk(w) ==
    /\ poll_pc[w] = "run"
    /\ \E value \in SampleValues, total \in MemTotals, t \in ClockReadings :
        /\ now' = t
        /\ plots' = [plots EXCEPT ![PollerPlot(w)] = PollBody(w, @, t, value, total)]
    /\ retries' = [retries EXCEPT ![w] = RetriesAfterSuccess(@)]
    /\ consec' = [consec EXCEPT ![w] = 0]
    /\ poll_pc' = [poll_pc EXCEPT ![w] = "sleep"]
    /\ written' = <<>>
    /\ UNCHANGED <<max_retries, raised, clientVars, sessVars, dmonVars, probeVars, infoVars, app>>

\* One pass whose try body raises: in the psutil call (nothing was done), or in
\* the rendering calls of update_data (the point was appended).
PollCycleFails(w) ==
    /\ poll_pc[w] = "run"
    /\ \/ UNCHANGED <<plots, now>>
       \/ \E value \in SampleValues, total \in MemTotals, t \in ClockReadings :
            /\ now' = t
            /\ plots' = [plots EXCEPT ![PollerPlot(w)] = PollBody(w, @, t, value, total)]
    /\ retries' = [retries EXCEPT ![w] = @ + 1]
    /\ consec' = [consec EXCEPT ![w] = @ + 1]
    /\ IF RetryExhausted(retries'[w], max_retries)
       THEN /\ written' = <<TerminalLog(w)>>
            /\ raised' = [raised EXCEPT ![w] = Append(@, TerminalError(w))]
            /\ poll_pc' = [poll_pc EXCEPT ![w] = "raised"]
       ELSE /\ written' = <<ErrorLog(w)>>
            /\ raised' = raised
            /\ poll_pc' = [poll_pc EXCEPT ![w] = "sleep"]
    /\ UNCHANGED <<max_retries, clientVars, sessVars, dmonVars, probeVars, infoVars, app>>

\* asyncio.sleep(DEFAULT_DMON_POLL) returns and the loop starts its next pass
PollSleepDone(w) ==
    /\ poll_pc[w] = "sleep"
    /\ poll_pc' = [poll_pc EXCEPT ![w] = "run"]
    /\ written' = <<>>
    /\ UNCHANGED <<plots, now, max_retries, retries, raised, consec, clientVars, sessVars, dmonVars, probeVars, infoVars, app>>

----------------------------------------------------------------------------
\* Text. A str or bytes value is a sequence of one-character strings; the byte
\* InvalidByte stands for every byte that is not valid UTF-8.

InvalidByte == "0xFF"

Digits == {"0", "1", "2", "3", "4", "5", "6", "7", "8", "9"}

DigitVal(c) ==
    CASE c = "0" -> 0 [] c = "1" -> 1 [] c = "2" -> 2 [] c = "3" -> 3
      [] c = "4" -> 4 [] c = "5" -> 5 [] c = "6" -> 6 [] c = "7" -> 7
      [] c = "8" -> 8 [] c = "9" -> 9

\* str.isspace of one character
IsSpace(c) == c \in {" ", "\t", "\n", "\r"}

\* bytes.decode(encoding="utf-8", errors="ignore"): the invalid bytes are dropped
DecodeIgnore(bytes) == SelectSeq(bytes, LAMBDA b : b # InvalidByte)

\* bytes.decode(encoding="utf-8"): UnicodeDecodeError on an invalid byte
DecodeStrict(bytes) ==
    IF \E i \in 1 .. Len(bytes) : bytes[i] = InvalidByte
    THEN [ok |-> FALSE, text |-> <<>>]
    ELSE [ok |-> TRUE, text |-> bytes]

RECURSIVE LStrip(_)
LStrip(s) ==
    IF s # <<>> /\ IsSpace(Head(s)) THEN LStrip(Tail(s)) ELSE s

RECURSIVE RStrip(_)
RStrip(s) ==
    IF s # <<>> /\ IsSpace(s[Len(s)]) THEN RStrip(SubSeq(s, 1, Len(s) - 1)) ELSE s

\* str.strip()
Strip(s) == RStrip(LStrip(s))

\* str.startswith of one character
StartsWith(s, c) == s # <<>> /\ s[1] = c

\* re.split(r"\s+", s): the fields between the runs of whitespace; a run at
\* either end leaves an empty field there, and "" gives [""].
RECURSIVE SplitFrom(_, _, _)
SplitFrom(s, cur, inRun) ==
    IF s = <<>> THEN <<cur>>
    ELSE IF IsSpace(Head(s))
         THEN IF inRun
              THEN SplitFrom(Tail(s), cur, TRUE)
              ELSE <<cur>> \o SplitFrom(Tail(s), <<>>, TRUE)
         ELSE SplitFrom(Tail(s), Append(cur, Head(s)), FALSE)

ReSplitWhitespace(s) == SplitFrom(s, <<>>, FALSE)

RECURSIVE NatVal(_)
NatVal(ds) ==
    IF ds = <<>> THEN 0
    ELSE NatVal(SubSeq(ds, 1, Len(ds) - 1)) * 10 + DigitVal(ds[Len(ds)])

RECURSIVE Pow10(_)
Pow10(k) == IF k = 0 THEN 1 ELSE 10 * Pow10(k - 1)

AllDigits(ds) == \A i \in 1 .. Len(ds) : ds[i] \in Digits

Unsigned(f) == IF f # <<>> /\ f[1] \in {"-", "+"} THEN Tail(f) ELSE f
SignOf(f) == IF f # <<>> /\ f[1] = "-" THEN -1 ELSE 1

\* int(s) for the texts of the feed: an optional sign and one or more digits;
\* anything else is a ValueError (ok = FALSE).
ParseInt(f) ==
    LET body == Unsigned(f)
    IN  IF body # <<>> /\ AllDigits(body)
        THEN [ok |-> TRUE, val |-> SignOf(f) * NatVal(body)]
        ELSE [ok |-> FALSE, val |-> 0]

\* float(s) for the texts of the feed: an optional sign, digits with at most one
\* point and at least one digit; the value in tenths (the texts of the feed have
\* at most one fractional digit). Anything else is a ValueError.
ParseFloat(f) ==
    LET body == Unsigned(f)
        dots == {i \in 1 .. Len(body) : body[i] = "."}
        dot  == IF dots = {} THEN Len(body) + 1 ELSE CHOOSE i \in dots : TRUE
        ip   == SubSeq(body, 1, dot - 1)
        fp   == SubSeq(body, dot + 1, Len(body))
    IN  IF Cardinality(dots) <= 1 /\ AllDigits(ip) /\ AllDigits(fp)
           /\ Len(ip) + Len(fp) >= 1
        THEN [ok |-> TRUE,
              val |-> SignOf(f) * (NatVal(ip) * 10 + (NatVal(fp) * 10) \div Pow10(Len(fp)))]
        ELSE [ok |-> FALSE, val |-> 0]

\* str.splitlines(): the lines between the line breaks "\n", "\r" and "\r\n";
\* a break at the end leaves no empty last line, and "" gives [].
RECURSIVE SplitLinesFrom(_, _)
SplitLinesFrom(s, cur) ==
    IF s = <<>> THEN (IF cur = <<>> THEN <<>> ELSE <<cur>>)
    ELSE IF Head(s) = "\r" /\ Len(s) >= 2 /\ s[2] = "\n"
         THEN <<cur>> \o SplitLinesFrom(Tail(Tail(s)), <<>>)
    ELSE IF Head(s) \in {"\n", "\r"}
         THEN <<cur>> \o SplitLinesFrom(Tail(s), <<>>)
    ELSE SplitLinesFrom(Tail(s), Append(cur, Head(s)))

SplitLines(s) == SplitLinesFrom(s, <<>>)

\* str.split(sep) for a separator of one character: the fields between the
\* separators, empty ones included; "" gives [""].
RECURSIVE SplitOnFrom(_, _, _)
SplitOnFrom(s, sep, cur) ==
    IF s = <<>> THEN <<cur>>
    ELSE IF Head(s) = sep
         THEN <<cur>> \o SplitOnFrom(Tail(s), sep, <<>>)
         ELSE SplitOnFrom(Tail(s), sep, Append(cur, Head(s)))

SplitOn(s, sep) == SplitOnFrom(s, sep, <<>>)

\* `sub in s`
Contains(s, sub) ==
    \E i \in 1 .. Len(s) - Len(sub) + 1 : SubSeq(s, i, i + Len(sub) - 1) = sub

----------------------------------------------------------------------------
\* _workers.py: subprocess_lifespan

\* the sessions, by the name their opener gives subprocess_lifespan
Names == {"nvidia-dmon", "process-list", "info-panel"}

\* exit codes: success, failure, killed by SIGKILL
ExitCodes == {0, 1}
KilledCode == -9

NoProcess ==
    [state |-> "none", returncode |-> None, stdout_eof |-> FALSE,
     stderr_eof |-> FALSE, streams_ok |-> TRUE, ops |-> <<>>]

NoScope ==
    [st |-> "none", left |-> "none", raises |-> "none", exited_at_exit |-> FALSE]

\* mutant: a probe whose last process has exited is handed that process again
SpawnedReused(streams_ok) ==
    IF sess["process-list"].state = "exited" THEN sess["process-list"]
    ELSE [state |-> "running", returncode |-> None, stdout_eof |-> FALSE,
          stderr_eof |-> FALSE, streams_ok |-> streams_ok, ops |-> <<>>]

\* create_subprocess_exec returned: a running process with both pipes open
Spawned(streams_ok) ==
    [state |-> "running", returncode |-> None, stdout_eof |-> FALSE,
     stderr_eof |-> FALSE, streams_ok |-> streams_ok, ops |-> <<>>]

Yielded ==
    [st |-> "body", left |-> "none", raises |-> "none", exited_at_exit |-> FALSE]

\* mutant: the except clause takes a CancelledError as well
LeaveLogCancelToo(n, how) ==
    IF how \in {"exception", "cancel"} THEN <<LogEntry("error:", <<n>>)>> ELSE <<>>

\* `except Exception`: an ordinary exception is logged; a return, a normal end
\* and a CancelledError (a BaseException) are not.
LeaveLog(n, how) ==
    IF how = "exception" THEN <<LogEntry("error:", <<n>>)>> ELSE <<>>

\* what the scope exit raises to the caller
LeaveRaises(how) ==
    CASE how = "exception" -> "SysMonitorWorkerError"
      [] how = "cancel" -> "CancelledError"
      [] OTHER -> "none"

\* mutant: the finally clause kills whatever the returncode
ProcessAfterLeaveAlwaysKill(p) == [p EXCEPT !.ops = Append(@, "kill")]

\* `finally: if process.returncode is None: process.kill()`
ProcessAfterLeave(p) ==
    IF p.returncode = None THEN [p EXCEPT !.ops = Append(@, "kill")] ELSE p

\* mutant: the finally clause does not await process.wait()
ScopeAfterLeaveNoWait(p, how) ==
    [st |-> "closed", left |-> how, raises |-> LeaveRaises(how),
     exited_at_exit |-> p.returncode # None]

\* The scope after its body was left in the way `how` ("normal", "return",
\* "exception", "cancel"): closed, or suspended in `await process.wait()`.
ScopeAfterLeave(p, how) ==
    [st |-> IF p.returncode = None THEN "wait" ELSE "closed",
     left |-> how, raises |-> LeaveRaises(how),
     exited_at_exit |-> p.returncode # None]

\* process.wait() returned: the scope is closed
ScopeAfterWait(sc) == [sc EXCEPT !.st = "closed"]

\* a CancelledError raised by `await process.wait()` leaves the finally clause
ScopeCancelledInWait(sc) == [sc EXCEPT !.st = "closed", !.raises = "CancelledError"]

\* how a coroutine ends whose last statement is the scope
OutcomeOf(raises) == IF raises = "none" THEN "returned" ELSE raises

\* No process yet; the workers in `started` have been handed to run_worker.
InitSessions(started) ==
    /\ sess = [n \in Names |-> NoProcess]
    /\ scope = [n \in Names |-> NoScope]
    /\ outcome = [n \in Names |-> "none"]
    /\ dmon_pc = IF "poll_dmon_stats" \in started THEN "start" ELSE "idle"
    /\ child_pc = [c \in {"consume_stdout", "consume_stderr"} |-> "none"]
    /\ parse_error_count = 0
    /\ cancel_requested = FALSE
    /\ warned = FALSE
    /\ probe_pc = "idle"
    /\ probe_stdout = None
    /\ probe_result = None
    /\ proc_table = <<>>
    /\ info_pc = IF "update_info_panel" \in started THEN "start" ELSE "idle"
    /\ info_panel = <<>>
    /\ info_output = None
    /\ app = "running"

\* The process ends by itself; asyncio sets returncode and both pipes are at EOF.
ProcExits(n) ==
    /\ sess[n].state = "running"
    /\ "kill" \notin {sess[n].ops[i] : i \in 1 .. Len(sess[n].ops)}
    /\ \E code \in ExitCodes :
        sess' = [sess EXCEPT ![n] = [@ EXCEPT !.state = "exited",
                                              !.returncode = Some(code),
                                              !.stdout_eof = TRUE,
                                              !.stderr_eof = TRUE]]
    /\ written' = <<>>
    /\ UNCHANGED <<plots, now, scope, outcome, clientVars, pollVars, dmonVars, probeVars, infoVars, app>>

\* The killed process ends.
ProcDies(n) ==
    /\ sess[n].state = "running"
    /\ "kill" \in {sess[n].ops[i] : i \in 1 .. Len(sess[n].ops)}
    /\ sess' = [sess EXCEPT ![n] = [@ EXCEPT !.state = "exited",
                                             !.returncode = Some(KilledCode),
                                             !.stdout_eof = TRUE,
                                             !.stderr_eof = TRUE]]
    /\ written' = <<>>
    /\ UNCHANGED <<plots, now, scope, outcome, clientVars, pollVars, dmonVars, probeVars, infoVars, app>>

----------------------------------------------------------------------------
\* _workers.py: poll_dmon_stats

Dmon == "nvidia-dmon"

\* the local max_parse_errors of consume_stdout
max_parse_errors == 20
\* longest run of malformed lines a feed of all the lines delivers
ShortBadRun == 2
\* longest run of malformed lines the long feed delivers
MaxBadRun == 21

Children == {"consume_stdout", "consume_stderr"}

\* Lines of the dmon feed, as readline returns them.
LineOk1 == <<"0", " ", "4", ".", "5", " ", "3", "0", " ", "-", " ", "7", " ", "2", "\n">>
LineOk2 == <<" ", "1", " ", " ", "1", "2", " ", "4", "1", " ", "0", " ", "9", "9", " ", "1", "0", "\n">>
LineComment == <<"#", " ", "g", "p", "u", " ", "p", "w", "r", "\n">>
LineCommentAfterBadByte == <<"0xFF", "#", "I", "d", "x", "\n">>
LineBlank == <<"\n">>
LineShort == <<"0", " ", "4", ".", "5", " ", "3", "0", "\n">>
LineBadPower == <<"0", " ", "-", " ", "3", "0", " ", "1", " ", "7", " ", "2", "\n">>
LineBadTemp == <<"0", " ", "4", ".", "5", " ", "3", ".", "5", " ", "1", " ", "7", " ", "2", "\n">>
LineBadUtil == <<"0", " ", "4", ".", "5", " ", "3", "0", " ", "1", " ", "x", " ", "2", "\n">>
LineBadMem == <<"0", " ", "4", ".", "5", " ", "3", "0", " ", "1", " ", "7", " ", "-", "\n">>

DmonLines ==
    {LineOk1, LineOk2, LineComment, LineCommentAfterBadByte, LineBlank, LineShort,
     LineBadPower, LineBadTemp, LineBadUtil, LineBadMem}

\* a line of stderr
StderrLines == {<<"e", "r", "r", "\n">>}

\* parts[i] (0-based): the field, or an IndexError
Item(parts, i) ==
    IF i < Len(parts) THEN [ok |-> TRUE, field |-> parts[i + 1]]
    ELSE [ok |-> FALSE, field |-> <<>>]

\* float(parts[i]) and int(parts[i]): the value, or the exception raised
FloatItem(parts, i) ==
    LET it == Item(parts, i)
        v == ParseFloat(it.field)
    IN  IF ~it.ok THEN [err |-> "IndexError", val |-> 0]
        ELSE IF ~v.ok THEN [err |-> "ValueError", val |-> 0]
        ELSE [err |-> "none", val |-> v.val]

IntItem(parts, i) ==
    LET it == Item(parts, i)
        v == ParseInt(it.field)
    IN  IF ~it.ok THEN [err |-> "IndexError", val |-> 0]
        ELSE IF ~v.ok THEN [err |-> "ValueError", val |-> 0]
        ELSE [err |-> "none", val |-> v.val]

\* the first exception of four conversions evaluated left to right
FirstError(errs) ==
    LET bad == {i \in 1 .. Len(errs) : errs[i] # "none"}
    IN  IF bad = {} THEN "none" ELSE errs[CHOOSE i \in bad : \A j \in bad : i <= j]

\* The tuple (float(parts[1]), int(parts[2]), int(parts[4]), int(parts[5])):
\* the four values, or the exception the first failing conversion raises.
ParseDmon(decoded) ==
    LET parts == ReSplitWhitespace(decoded)
        pwr  == FloatItem(parts, 1)
        temp == IntItem(parts, 2)
        util == IntItem(parts, 4)
        mem  == IntItem(parts, 5)
    IN  [err |-> FirstError(<<pwr.err, temp.err, util.err, mem.err>>),
         pwr |-> pwr.val, temp |-> temp.val, util |-> util.val, mem |-> mem.val]

\* mutant: the except clause catches ValueError alone
ExceptCatchesValueErrorOnly(err) == err = "ValueError"

\* `except (IndexError, ValueError)`
ExceptCatches(err) == err \in {"IndexError", "ValueError"}

\* line.decode(encoding="utf-8", errors="ignore").strip()
DecodedLine(line) == Strip(DecodeIgnore(line))

\* what consume_stdout makes of each line of the feed: the decoded text and the
\* outcome of the try body's conversions, tabulated
DecodedLines == [line \in DmonLines |-> DecodedLine(line)]

ParsedLines == [line \in DmonLines |-> ParseDmon(DecodedLines[line])]

\* mutant: the temperature goes to the utilization plot and the utilization to
\* the temperature plot
DmonAppendSwapped(pl, r, t1, t2, t3, t4) ==
    [pl EXCEPT !["gpu_power"] = update_data(@, t1, r.pwr),
               !["gpu_utilization"] = update_data(@, t2, Tenths(r.temp)),
               !["gpu_temperature"] = update_data(@, t3, Tenths(r.util)),
               !["gpu_memory"] = update_data(@, t4, Tenths(r.mem))]

\* the four update_data calls, in the order of the code, each with its own
\* reading of the clock
DmonAppend(pl, r, t1, t2, t3, t4) ==
    [pl EXCEPT !["gpu_power"] = update_data(@, t1, r.pwr),
               !["gpu_utilization"] = update_data(@, t2, Tenths(r.util)),
               !["gpu_temperature"] = update_data(@, t3, Tenths(r.temp)),
               !["gpu_memory"] = update_data(@, t4, Tenths(r.mem))]

\* mutant: a line that parses leaves parse_error_count alone
CountAfterSuccessKept(count) == count

\* `parse_error_count = 0  # Reset on success`
CountAfterSuccess(count) == 0

\* mutant: the except clause re-raises once the threshold is reached
MalformedIsFatalAtThreshold(count) == count >= max_parse_errors

\* whether the except clause of consume_stdout lets the exception out of the
\* read loop: it never does
MalformedIsFatal(count) == FALSE

\* the warning of the except clause
ParseWarning(count) ==
    IF count >= max_parse_errors
    THEN <<LogEntry("Too many parse errors in dmon output:", <<"e">>)>>
    ELSE <<>>

\* the exit of the dmon scope: the session and scope after the body was left
\* in the way `how`, and the worker done when the scope closes at once
DmonLeaves(how) ==
    LET sc == ScopeAfterLeave(sess[Dmon], how)
    IN  /\ sess' = [sess EXCEPT ![Dmon] = ProcessAfterLeave(@)]
        /\ scope' = [scope EXCEPT ![Dmon] = sc]
        /\ IF sc.st = "closed"
           THEN /\ dmon_pc' = "done"
                /\ outcome' = [outcome EXCEPT ![Dmon] = OutcomeOf(sc.raises)]
           ELSE /\ dmon_pc' = "wait"
                /\ outcome' = outcome

\* mutant: the streams are not looked at
StreamsCapturedUnchecked(p) == TRUE

\* the negation of `proc.stdout is None or proc.stderr is None`
StreamsCaptured(p) == p.streams_ok

\* poll_dmon_stats from its start to its first suspension after the spawn:
\* create_subprocess_exec raises (the exception leaves the worker as it is), or
\* the body runs to the await of gather with both read loops suspended in
\* readline, or a stream is missing and the body returns.
DmonStart ==
    /\ dmon_pc = "start"
    /\ \/ /\ dmon_pc' = "done"
          /\ outcome' = [outcome EXCEPT ![Dmon] = "OSError"]
          /\ written' = <<>>
          /\ UNCHANGED <<sess, scope, child_pc>>
       \/ /\ \E p \in {Spawned(TRUE), Spawned(FALSE)} :
                /\ StreamsCaptured(p)
                /\ sess' = [sess EXCEPT ![Dmon] = p]
          /\ scope' = [scope EXCEPT ![Dmon] = Yielded]
          /\ child_pc' = [c \in Children |-> "read"]
          /\ dmon_pc' = "gather"
          /\ written' = <<>>
          /\ UNCHANGED outcome
       \/ /\ \E p \in {Spawned(TRUE), Spawned(FALSE)} :
             LET sc == ScopeAfterLeave(p, "return")
             IN  /\ ~StreamsCaptured(p)
                 /\ sess' = [sess EXCEPT ![Dmon] = ProcessAfterLeave(p)]
                 /\ scope' = [scope EXCEPT ![Dmon] = sc]
                 /\ IF sc.st = "closed"
                    THEN /\ dmon_pc' = "done"
                         /\ outcome' = [outcome EXCEPT ![Dmon] = "returned"]
                    ELSE /\ dmon_pc' = "wait"
                         /\ outcome' = outcome
          /\ written' = <<LogEntry("Failed to capture dmon output.", <<>>)>>
          /\ UNCHANGED child_pc
    /\ UNCHANGED <<plots, now, parse_error_count, cancel_requested, warned,
                   clientVars, pollVars, probeVars, infoVars, app>>

\* mutant: the two loops are awaited one after the other, consume_stderr
\* starting once consume_stdout has ended
ReadLoopRunsInTurn(c, pcs) ==
    /\ pcs[c] = "read"
    /\ c = "consume_stderr" => pcs["consume_stdout"] # "read"

\* asyncio.gather(consume_stdout(), consume_stderr()) wraps each coroutine in a
\* task of its own: a read loop suspended in readline resumes when its stream
\* has something for it, whatever the other loop is doing
ReadLoopRuns(c, pcs) == pcs[c] = "read"

\* consume_stdout: readline returns `line`, and the loop body runs to the next
\* readline. The feed delivers at most maxRun malformed lines in a row.
ConsumeStdoutLine(line, maxRun) ==
    /\ ReadLoopRuns("consume_stdout", child_pc)
    /\ ~sess[Dmon].stdout_eof
    /\ LET decoded == DecodedLines[line]
           r == ParsedLines[line]
       IN  IF StartsWith(decoded, "#")
           THEN /\ written' = <<>>
                /\ UNCHANGED <<plots, now, parse_error_count, warned, child_pc>>
           ELSE IF r.err = "none"
           THEN /\ \E t1 \in ClockReadings :
                   \E t2 \in ClockReadingsFrom(t1) :
                   \E t3 \in ClockReadingsFrom(t2) :
                   \E t4 \in ClockReadingsFrom(t3) :
                        /\ plots' = DmonAppend(plots, r, t1, t2, t3, t4)
                        /\ now' = t4
                /\ parse_error_count' = CountAfterSuccess(parse_error_count)
                /\ written' = <<LogEntry("", decoded)>>
                /\ UNCHANGED <<child_pc, warned>>
           ELSE IF ~ExceptCatches(r.err)
           THEN /\ child_pc' = [child_pc EXCEPT !["consume_stdout"] = "raised"]
                /\ written' = <<LogEntry("", decoded)>>
                /\ UNCHANGED <<plots, now, parse_error_count, warned>>
           ELSE /\ parse_error_count < maxRun
                /\ parse_error_count' = parse_error_count + 1
                /\ written' = <<LogEntry("", decoded)>> \o ParseWarning(parse_error_count')
                /\ warned' = (warned \/ ParseWarning(parse_error_count') # <<>>)
                /\ child_pc' = [child_pc EXCEPT !["consume_stdout"] =
                        IF MalformedIsFatal(parse_error_count') THEN "raised" ELSE @]
                /\ UNCHANGED <<plots, now>>
    /\ UNCHANGED <<sessVars, dmon_pc, cancel_requested, clientVars, pollVars, probeVars, infoVars, app>>

\* the first k of the four update_data calls of the try body
DmonAppendFirst(k, pl, r, t1, t2, t3, t4) ==
    [p \in PlotIds |->
        IF \/ p = "gpu_power" /\ k >= 1
           \/ p = "gpu_utilization" /\ k >= 2
           \/ p = "gpu_temperature" /\ k >= 3
           \/ p = "gpu_memory" /\ k >= 4
        THEN DmonAppend(pl, r, t1, t2, t3, t4)[p]
        ELSE pl[p]]

\* consume_stdout on a well-formed line whose k-th update_data raises from
\* draw_plot or refresh, after its append: an IndexError or ValueError is taken
\* by the except clause for a parse error, any other exception leaves the loop.
ConsumeStdoutRenderRaises(line, maxRun) ==
    /\ ReadLoopRuns("consume_stdout", child_pc)
    /\ ~sess[Dmon].stdout_eof
    /\ ~StartsWith(DecodedLines[line], "#")
    /\ ParsedLines[line].err = "none"
    /\ \E k \in 1 .. 4 :
       \E t1 \in ClockReadings :
       \E t2 \in ClockReadingsFrom(t1) :
       \E t3 \in ClockReadingsFrom(t2) :
       \E t4 \in ClockReadingsFrom(t3) :
            /\ plots' = DmonAppendFirst(k, plots, ParsedLines[line], t1, t2, t3, t4)
            /\ now' = <<t1, t2, t3, t4>>[k]
    /\ \E err \in {"ValueError", "RuntimeError"} :
        IF ExceptCatches(err)
        THEN /\ parse_error_count < maxRun
             /\ parse_error_count' = parse_error_count + 1
             /\ written' = <<LogEntry("", DecodedLines[line])>>
                                \o ParseWarning(parse_error_count')
             /\ warned' = (warned \/ ParseWarning(parse_error_count') # <<>>)
             /\ child_pc' = [child_pc EXCEPT !["consume_stdout"] =
                     IF MalformedIsFatal(parse_error_count') THEN "raised" ELSE @]
        ELSE /\ child_pc' = [child_pc EXCEPT !["consume_stdout"] = "raised"]
             /\ written' = <<LogEntry("", DecodedLines[line])>>
             /\ UNCHANGED <<parse_error_count, warned>>
    /\ UNCHANGED <<sessVars, dmon_pc, cancel_requested, clientVars, pollVars, probeVars, infoVars, app>>

\* consume_stderr: readline returns a line, which is logged
ConsumeStderrLine ==
    /\ ReadLoopRuns("consume_stderr", child_pc)
    /\ ~sess[Dmon].stderr_eof
    /\ \E line \in StderrLines :
        written' = <<LogEntry("DMON STDERR:", DecodedLine(line))>>
    /\ UNCHANGED <<plots, now, sessVars, dmonVars, clientVars, pollVars, probeVars, infoVars, app>>

\* the stream of read loop c
StreamEof(c) ==
    IF c = "consume_stdout" THEN sess[Dmon].stdout_eof ELSE sess[Dmon].stderr_eof

\* a read loop at end of input: readline returns b"" and the loop ends
ConsumeEof(c) ==
    /\ ReadLoopRuns(c, child_pc)
    /\ StreamEof(c)
    /\ child_pc' = [child_pc EXCEPT ![c] = "done"]
    /\ written' = <<>>
    /\ UNCHANGED <<plots, now, sessVars, dmon_pc, parse_error_count, cancel_requested, warned,
                   clientVars, pollVars, probeVars, infoVars, app>>

\* readline raises (ValueError for a line longer than the reader's limit): the
\* exception leaves the read loop
ConsumeRaises(c) ==
    /\ ReadLoopRuns(c, child_pc)
    /\ ~StreamEof(c)
    /\ child_pc' = [child_pc EXCEPT ![c] = "raised"]
    /\ written' = <<>>
    /\ UNCHANGED <<plots, now, sessVars, dmon_pc, parse_error_count, cancel_requested, warned,
                   clientVars, pollVars, probeVars, infoVars, app>>

\* the process closes one of its output streams while it runs
StreamCloses(c) ==
    /\ sess[Dmon].state = "running"
    /\ ~StreamEof(c)
    /\ sess' = [sess EXCEPT ![Dmon] =
            IF c = "consume_stdout" THEN [@ EXCEPT !.stdout_eof = TRUE]
            ELSE [@ EXCEPT !.stderr_eof = TRUE]]
    /\ written' = <<>>
    /\ UNCHANGED <<plots, now, scope, outcome, dmonVars, clientVars, pollVars, probeVars, infoVars, app>>

\* gather returns: both read loops have ended, and the body ends normally
DmonGatherReturns ==
    /\ dmon_pc = "gather"
    /\ ~cancel_requested
    /\ \A c \in Children : child_pc[c] = "done"
    /\ DmonLeaves("normal")
    /\ written' = LeaveLog(Dmon, "normal")
    /\ UNCHANGED <<plots, now, child_pc, parse_error_count, cancel_requested, warned,
                   clientVars, pollVars, probeVars, infoVars, app>>

\* gather raises the exception of a read loop (the other loop is left running):
\* `except Exception` logs it and raises SysMonitorWorkerError
DmonGatherRaises ==
    /\ dmon_pc = "gather"
    /\ ~cancel_requested
    /\ \E c \in Children : child_pc[c] = "raised"
    /\ DmonLeaves("exception")
    /\ written' = LeaveLog(Dmon, "exception")
    /\ UNCHANGED <<plots, now, child_pc, parse_error_count, cancel_requested, warned,
                   clientVars, pollVars, probeVars, infoVars, app>>

\* The supervisor cancels the task while it awaits gather: gather, unless it has
\* its result, cancels the read loops that have not ended.
DmonCancel ==
    /\ dmon_pc = "gather"
    /\ ~cancel_requested
    /\ cancel_requested' = TRUE
    /\ child_pc' =
        IF \/ \E c \in Children : child_pc[c] = "raised"
           \/ \A c \in Children : child_pc[c] = "done"
        THEN child_pc
        ELSE [c \in Children |-> IF child_pc[c] = "read" THEN "cancelled" ELSE child_pc[c]]
    /\ written' = <<>>
    /\ UNCHANGED <<plots, now, sessVars, dmon_pc, parse_error_count, warned,
                   clientVars, pollVars, probeVars, infoVars, app>>

\* the CancelledError reaches the await of gather and leaves the body
DmonCancelled ==
    /\ dmon_pc = "gather"
    /\ cancel_requested
    /\ DmonLeaves("cancel")
    /\ written' = LeaveLog(Dmon, "cancel")
    /\ UNCHANGED <<plots, now, child_pc, parse_error_count, cancel_requested, warned,
                   clientVars, pollVars, probeVars, infoVars, app>>

\* `await process.wait()` of the finally clause returns: the worker is done
DmonWaitReturns ==
    /\ dmon_pc = "wait"
    /\ sess[Dmon].state = "exited"
    /\ sess' = [sess EXCEPT ![Dmon] = [@ EXCEPT !.ops = Append(@, "wait")]]
    /\ scope' = [scope EXCEPT ![Dmon] = ScopeAfterWait(@)]
    /\ outcome' = [outcome EXCEPT ![Dmon] = OutcomeOf(scope[Dmon].raises)]
    /\ dmon_pc' = "done"
    /\ written' = <<>>
    /\ UNCHANGED <<plots, now, child_pc, parse_error_count, cancel_requested, warned,
                   clientVars, pollVars, probeVars, infoVars, app>>

\* the supervisor cancels the task while it awaits process.wait() in the
\* finally clause: the CancelledError ends the worker
DmonCancelInWait ==
    /\ dmon_pc = "wait"
    /\ ~cancel_requested
    /\ cancel_requested' = TRUE
    /\ scope' = [scope EXCEPT ![Dmon] = ScopeCancelledInWait(@)]
    /\ outcome' = [outcome EXCEPT ![Dmon] = "CancelledError"]
    /\ dmon_pc' = "done"
    /\ written' = <<>>
    /\ UNCHANGED <<plots, now, sess, child_pc, parse_error_count, warned,
                   clientVars, pollVars, probeVars, infoVars, app>>

\* the steps of the dmon worker and of its process, the feed delivering `lines`
\* with at most maxRun malformed ones in a row
NextDmonFed(lines, maxRun) ==
    \/ DmonStart
    \/ \E line \in lines : ConsumeStdoutLine(line, maxRun)
    \/ ConsumeStderrLine
    \/ \E c \in Children : ConsumeEof(c)
    \/ \E c \in Children : ConsumeRaises(c)
    \/ \E c \in Children : StreamCloses(c)
    \/ DmonGatherReturns
    \/ DmonGatherRaises
    \/ DmonCancel
    \/ DmonCancelled
    \/ DmonWaitReturns
    \/ DmonCancelInWait
    \/ ProcExits(Dmon)
    \/ ProcDies(Dmon)

----------------------------------------------------------------------------
\* _workers.py: update_process_list and the subprocess_communicate it calls

Probe == "process-list"

\* the text nvidia-smi prints for a query the device does not support
Sentinel ==
    <<"[", "N", "o", "t", " ", "S", "u", "p", "p", "o", "r", "t", "e", "d", "]">>

\* what the process wrote to its stdout
OutEmpty == <<>>
OutBlank == <<"\n">>
OutOneRow == <<"7", ",", "p", ",", "6", "4", "\n">>
OutOneRowPadded == <<" ", "7", ",", "p", ",", "6", "4">>
OutBadByte == <<"7", ",", "0xFF", ",", "6", "4", "\n">>
OutTwoRows ==
    <<"1", "2", "3", "4", ",", " ", "p", "r", "o", "c", "-", "a", ",", " ",
      "5", "1", "2", "\n", "7", ",", "p", "r", "o", "c", "-", "b", ",", "6", "4">>
OutMixed ==
    <<"7", ",", "p", ",", "6", "4", "\n", "b", "a", "d", "\n",
      "1", ",", "a", ",", "b", ",", "2", "\n", "\n", "8", ",", "q", ",", "1", "\n">>
OutCrLf ==
    <<"9", ",", "r", ",", "2", "\r", "\n", "7", ",", "p", ",", "6", "4", "\r", "\n">>
OutCommaInName == <<"5", ",", "a", ",", "b", ",", "3", "\n">>
OutInnerSpaces ==
    <<"3", " ", ",", " ", "s", " ", "t", " ", ",", " ", "1", "0", " ", "\n">>
OutTabs == <<"4", ",", "\t", "u", "\t", ",", "8", "\n">>
OutTwoFields == <<"6", ",", "v", "\n", "2", ",", "w", ",", "3", "2", "\n">>
OutSentinel == Sentinel \o <<"\n">>
OutSentinelSecondLine ==
    <<"7", ",", "p", ",", "6", "4", "\n">> \o Sentinel \o <<",", "x", "\n">>

ProbeOutputs ==
    {OutEmpty, OutBlank, OutOneRow, OutOneRowPadded, OutBadByte, OutTwoRows,
     OutMixed, OutCrLf, OutCommaInName, OutInnerSpaces, OutTabs, OutTwoFields,
     OutSentinel, OutSentinelSecondLine}

\* mutant: stdout is decoded with errors="ignore" like stderr
ProbeDecodeIgnoring(bytes) == [ok |-> TRUE, text |-> DecodeIgnore(bytes)]

\* `stdout.decode(encoding="utf-8")` of the last line
ProbeDecode(bytes) == DecodeStrict(bytes)

\* mutant: the result is returned whatever the exit code
ProbeFailedNever(returncode) == FALSE

\* `if proc.returncode != 0`
ProbeFailed(returncode) == returncode # Some(0)

\* Lines 70-75, after the scope: the log entries, the result and how the call
\* ends, from the returncode and the captured stdout.
AfterScope(returncode, stdout) ==
    LET d == ProbeDecode(stdout)
    IN  IF ProbeFailed(returncode)
        THEN [log |-> <<LogEntry("failed:", <<Probe>>)>>, result |-> None,
              outcome |-> "returned"]
        ELSE IF ~d.ok
        THEN [log |-> <<>>, result |-> None, outcome |-> "UnicodeDecodeError"]
        ELSE [log |-> <<>>, result |-> Some(Strip(d.text)), outcome |-> "returned"]

\* the row update_process_list shows for an empty list
PlaceholderRow == <<(<<"[i]No running processes[/i]">>)>>
\* (a row is a sequence of cells and a cell a text: this row has one cell)

\* mutant: only an output that is the sentinel alone counts as unsupported
NoProcessesSentinelOnly(output) == output = None \/ output[1] = Sentinel

\* `not output or "[Not Supported]" in output`
NoProcesses(output) ==
    output = None \/ output[1] = <<>> \/ Contains(output[1], Sentinel)

\* mutant: a malformed line ends the loop over the lines
LinesAfterMalformedNone(rest) == <<>>

\* the lines the loop goes on to after the except clause of a malformed line
LinesAfterMalformed(rest) == rest

\* The for loop over output.splitlines(): `pid, name, memory = line.split(",")`
\* adds the row of a line of three fields; any other count is a ValueError,
\* which is logged.
RECURSIVE ProcessRows(_)
ProcessRows(lines) ==
    IF lines = <<>> THEN [rows |-> <<>>, log |-> <<>>]
    ELSE LET line == Head(lines)
             f == SplitOn(line, ",")
         IN  IF Len(f) = 3
             THEN LET rest == ProcessRows(Tail(lines))
                  IN  [rows |-> <<(<<Strip(f[1]), Strip(f[2]),
                                    Strip(f[3]) \o <<" ", "M", "B">>>>)>> \o rest.rows,
                       log |-> rest.log]
             ELSE LET rest == ProcessRows(LinesAfterMalformed(Tail(lines)))
                  IN  [rows |-> rest.rows,
                       log |-> <<LogEntry("WARN: Malformed process line:", line)>>
                                    \o rest.log]

\* mutant: the table is not cleared before the rows are added
TableKept(table) == table

\* proc_table.clear()
TableCleared(table) == <<>>

\* mutant: a call that returns no result is handled like one that raises
ProbeRaisedOrFailed(ended, output) == ended # "returned" \/ output = None

\* the call of subprocess_communicate raised, and `except Exception` has it
ProbeRaised(ended, output) == ended # "returned"

\* update_process_list after its call of subprocess_communicate ended in the
\* way `ended` with `output`: the table is cleared and filled again, or the
\* exception of the call is logged by `except Exception` and the table is as
\* it was.
ProcessListAfter(ended, output, table) ==
    IF ProbeRaised(ended, output)
    THEN [table |-> table,
          log |-> <<LogEntry("Process list update failed:", <<ended>>)>>]
    ELSE IF NoProcesses(output)
    THEN [table |-> TableCleared(table) \o <<PlaceholderRow>>, log |-> <<>>]
    ELSE LET r == ProcessRows(SplitLines(output[1]))
         IN  [table |-> TableCleared(table) \o r.rows, log |-> r.log]

\* the step in which the call of subprocess_communicate ends, having logged
\* `log`: the rest of update_process_list runs in the same step
ProcessListEnds(ended, output, log) ==
    LET after == ProcessListAfter(ended, output, proc_table)
    IN  /\ proc_table' = after.table
        /\ written' = log \o after.log

\* A call of subprocess_communicate, to its first suspension:
\* create_subprocess_exec raises, or the call is suspended in
\* wait_for(proc.communicate()).
ProbeCall ==
    /\ probe_pc \in {"idle", "done"}
    /\ probe_stdout' = None
    /\ probe_result' = None
    /\ \/ /\ probe_pc' = "done"
          /\ outcome' = [outcome EXCEPT ![Probe] = "OSError"]
          /\ sess' = [sess EXCEPT ![Probe] = NoProcess]
          /\ scope' = [scope EXCEPT ![Probe] = NoScope]
          /\ ProcessListEnds("OSError", None, <<>>)
       \/ /\ probe_pc' = "communicate"
          /\ outcome' = [outcome EXCEPT ![Probe] = "none"]
          /\ sess' = [sess EXCEPT ![Probe] = Spawned(TRUE)]
          /\ scope' = [scope EXCEPT ![Probe] = Yielded]
          /\ written' = <<>>
          /\ UNCHANGED proc_table
    /\ UNCHANGED <<plots, now, clientVars, pollVars, dmonVars, infoVars, app>>

\* communicate returns: the process has exited and its stdout, one of
\* `outputs`, is read. The body ends normally, the scope closes, and lines
\* 70-75 run.
ProbeCommunicateReturns(outputs) ==
    /\ probe_pc = "communicate"
    /\ sess[Probe].state = "exited"
    /\ \E stdout \in outputs :
        LET sc == ScopeAfterLeave(sess[Probe], "normal")
            after == AfterScope(sess[Probe].returncode, stdout)
        IN  /\ sess' = [sess EXCEPT ![Probe] = ProcessAfterLeave(@)]
            /\ scope' = [scope EXCEPT ![Probe] = sc]
            /\ probe_pc' = "done"
            /\ probe_stdout' = Some(stdout)
            /\ probe_result' = after.result
            /\ outcome' = [outcome EXCEPT ![Probe] = after.outcome]
            /\ ProcessListEnds(after.outcome, after.result, after.log)
    /\ UNCHANGED <<plots, now, clientVars, pollVars, dmonVars, infoVars, app>>

\* wait_for raises TimeoutError while the process runs: the body logs and
\* returns, and the scope is left by that return.
ProbeTimeout ==
    /\ probe_pc = "communicate"
    /\ sess[Probe].state = "running"
    /\ LET sc == ScopeAfterLeave(sess[Probe], "return")
       IN  /\ sess' = [sess EXCEPT ![Probe] = ProcessAfterLeave(@)]
           /\ scope' = [scope EXCEPT ![Probe] = sc]
           /\ IF sc.st = "closed"
              THEN /\ probe_pc' = "done"
                   /\ outcome' = [outcome EXCEPT ![Probe] = "returned"]
                   /\ ProcessListEnds("returned", None,
                            <<LogEntry("Process query timed out", <<>>)>>)
              ELSE /\ probe_pc' = "wait"
                   /\ outcome' = outcome
                   /\ written' = <<LogEntry("Process query timed out", <<>>)>>
                   /\ UNCHANGED proc_table
    /\ probe_result' = None
    /\ probe_stdout' = None
    /\ UNCHANGED <<plots, now, clientVars, pollVars, dmonVars, infoVars, app>>

\* communicate raises an ordinary exception while the process runs:
\* `except Exception` logs it and raises SysMonitorWorkerError
ProbeCommunicateRaises ==
    /\ probe_pc = "communicate"
    /\ sess[Probe].state = "running"
    /\ LET sc == ScopeAfterLeave(sess[Probe], "exception")
       IN  /\ sess' = [sess EXCEPT ![Probe] = ProcessAfterLeave(@)]
           /\ scope' = [scope EXCEPT ![Probe] = sc]
           /\ IF sc.st = "closed"
              THEN /\ probe_pc' = "done"
                   /\ outcome' = [outcome EXCEPT ![Probe] = OutcomeOf(sc.raises)]
                   /\ ProcessListEnds(OutcomeOf(sc.raises), None,
                            LeaveLog(Probe, "exception"))
              ELSE /\ probe_pc' = "wait"
                   /\ outcome' = outcome
                   /\ written' = LeaveLog(Probe, "exception")
                   /\ UNCHANGED proc_table
    /\ probe_result' = None
    /\ probe_stdout' = None
    /\ UNCHANGED <<plots, now, clientVars, pollVars, dmonVars, infoVars, app>>

\* `await process.wait()` of the finally clause returns, and the call ends: by
\* the return of the timeout, or by the exception the scope raises
ProbeWaitReturns ==
    /\ probe_pc = "wait"
    /\ sess[Probe].state = "exited"
    /\ sess' = [sess EXCEPT ![Probe] = [@ EXCEPT !.ops = Append(@, "wait")]]
    /\ scope' = [scope EXCEPT ![Probe] = ScopeAfterWait(@)]
    /\ outcome' = [outcome EXCEPT ![Probe] = OutcomeOf(scope[Probe].raises)]
    /\ probe_pc' = "done"
    /\ probe_result' = None
    /\ probe_stdout' = None
    /\ ProcessListEnds(OutcomeOf(scope[Probe].raises), None, <<>>)
    /\ UNCHANGED <<plots, now, clientVars, pollVars, dmonVars, infoVars, app>>

NextProbeFed(outputs) ==
    \/ ProbeCall
    \/ ProbeCommunicateReturns(outputs)
    \/ ProbeTimeout
    \/ ProbeCommunicateRaises
    \/ ProbeWaitReturns
    \/ ProcExits(Probe)
    \/ ProcDies(Probe)

----------------------------------------------------------------------------
\* _workers.py: _get_gpu_info. In the text of `nvidia-smi -q` a label of the
\* block ("Product Name", "Total", ...) and a unit ("MiB") is one character of
\* the sequence.

Spaces == {" ", "\t", "\n", "\r"}

\* the index after the longest run of characters of cls that starts at i
RECURSIVE AfterRun(_, _, _)
AfterRun(s, i, cls) ==
    IF i <= Len(s) /\ s[i] \in cls THEN AfterRun(s, i + 1, cls) ELSE i

\* the index of the end of the line of i: `.*` from i
RECURSIVE EndOfLine(_, _)
EndOfLine(s, i) ==
    IF i <= Len(s) /\ s[i] # "\n" THEN EndOfLine(s, i + 1) ELSE i

\* `label\s+:\s+` matched at i: the index after it, or 0
ValueAt(s, i, label) ==
    LET j == AfterRun(s, i + 1, Spaces)
        k == AfterRun(s, j + 1, Spaces)
    IN  IF s[i] = label /\ j > i + 1 /\ j <= Len(s) /\ s[j] = ":" /\ k > j + 1
        THEN k ELSE 0

\* `([\d.]+)` matched at k: the index after it, or 0
NumberEnd(s, k) ==
    LET e == AfterRun(s, k, Digits \cup {"."})
    IN  IF e > k THEN e ELSE 0

\* `(cls+\s+unit)` matched at k: the index after it, or 0
QuantityEnd(s, k, cls, unit) ==
    LET d == AfterRun(s, k, cls)
        u == AfterRun(s, d, Spaces)
    IN  IF d > k /\ u > d /\ u <= Len(s) /\ s[u] = unit THEN u + 1 ELSE 0

\* the group of the leftmost match among the matches `at`, a set of
\* <<start, first index of the group, index after the group>>
FirstGroup(s, at) ==
    IF at = {} THEN None
    ELSE LET m == CHOOSE m \in at : \A o \in at : m[1] <= o[1]
         IN  Some(SubSeq(s, m[2], m[3] - 1))

\* re.search(r"Product Name\s+:\s+(.*)", output)
name_match(s) ==
    FirstGroup(s, {<<i, ValueAt(s, i, "Product Name"),
                       EndOfLine(s, ValueAt(s, i, "Product Name"))>> :
                    i \in {i \in 1 .. Len(s) : ValueAt(s, i, "Product Name") # 0}})

\* re.search(label + r"\s+:\s+([\d.]+)", output)
NumberMatch(s, label) ==
    FirstGroup(s, {<<i, ValueAt(s, i, label), NumberEnd(s, ValueAt(s, i, label))>> :
                    i \in {i \in 1 .. Len(s) :
                            /\ ValueAt(s, i, label) # 0
                            /\ NumberEnd(s, ValueAt(s, i, label)) # 0}})

\* mutant: the driver version is searched in the line after the product name
driver_match_after_name(s) ==
    IF name_match(s) = None THEN None ELSE NumberMatch(s, "Driver Version")

driver_match(s) == NumberMatch(s, "Driver Version")

cuda_match(s) == NumberMatch(s, "CUDA Version")

\* where `Total\s+:\s+([\d]+\s+MiB)` matches: <<start, group, after the group>>
TotalMatches(s) ==
    {<<j, ValueAt(s, j, "Total"), QuantityEnd(s, ValueAt(s, j, "Total"), Digits, "MiB")>> :
        j \in {j \in 1 .. Len(s) :
                /\ ValueAt(s, j, "Total") # 0
                /\ QuantityEnd(s, ValueAt(s, j, "Total"), Digits, "MiB") # 0}}

\* re.search(r"FB Memory Usage[\s\S]*?Total\s+:\s+([\d]+\s+MiB)", output): from
\* the first "FB Memory Usage" that has a total after it, the nearest total
mem_match(s) ==
    LET starts == {i \in 1 .. Len(s) :
                    s[i] = "FB Memory Usage" /\ \E m \in TotalMatches(s) : m[1] > i}
    IN  IF starts = {} THEN None
        ELSE LET i == CHOOSE i \in starts : \A o \in starts : i <= o
             IN  FirstGroup(s, {m \in TotalMatches(s) : m[1] > i})

\* re.search(r"Max Power Limit\s+:\s+([\d.]+\s+W)", output)
max_watt_match(s) ==
    FirstGroup(s,
        {<<i, ValueAt(s, i, "Max Power Limit"),
              QuantityEnd(s, ValueAt(s, i, "Max Power Limit"), Digits \cup {"."}, "W")>> :
            i \in {i \in 1 .. Len(s) :
                    /\ ValueAt(s, i, "Max Power Limit") # 0
                    /\ QuantityEnd(s, ValueAt(s, i, "Max Power Limit"),
                                   Digits \cup {"."}, "W") # 0}})

\* str.split(): the fields between the runs of whitespace, none of them empty
SplitBlank(s) == SelectSeq(ReSplitWhitespace(s), LAMBDA f : f # <<>>)

NA == <<"N/A">>

\* the group of a match, stripped, or "N/A"
GroupOr(m) == IF m = None THEN NA ELSE Strip(m[1])

\* lines 304-313: the formatter of mem_plot from the total memory
MemPlotAfter(mem_plot, m) ==
    IF m = None \/ formatter_is_set(mem_plot) THEN [err |-> "none", plot |-> mem_plot]
    ELSE LET f == SplitBlank(Strip(m[1]))
         IN  IF Len(f) # 2 \/ ~ParseFloat(f[1]).ok
             THEN [err |-> "ValueError", plot |-> mem_plot]
             ELSE LET mib == ParseFloat(f[1]).val \div 10
                      tot == CASE f[2] = <<"MiB">> -> mib * 1000000
                               [] f[2] = <<"GiB">> -> mib * 1000000000
                               [] OTHER -> mib
                  IN  [err |-> "none",
                       plot |-> set_value_formatter(mem_plot, memory_formatter(tot))]

\* lines 314-321: the upper limit of power_plot, 1.1 times the power limit; a
\* number float() rejects is passed over
PowerPlotAfter(power_plot, m) ==
    IF m = None THEN [err |-> "none", plot |-> power_plot]
    ELSE LET f == SplitBlank(Strip(m[1]))
         IN  IF Len(f) # 2 THEN [err |-> "ValueError", plot |-> power_plot]
             ELSE IF ~ParseFloat(f[1]).ok THEN [err |-> "none", plot |-> power_plot]
             ELSE [err |-> "none",
                   plot |-> set_y_upper_lim(power_plot,
                                (ParseFloat(f[1]).val * 11) \div 10)]

\* Outputs of `nvidia-smi -q -i <gpu_id>`.
InfoFields == {"name", "driver", "cuda", "mem", "power"}

\* The block `nvidia-smi -q` prints for a device, with the lines of the fields in
\* `has`; the BAR1 block, with a total of its own, is always there.
DeviceText(dev, has) ==
    <<"=", "\n">>
    \o (IF "name" \in has
        THEN <<" ", "Product Name", " ", " ", ":", " ">>
             \o (IF dev = "a" THEN <<"R", " ", "A", "1">> ELSE <<"T", "4">>) \o <<" ", "\n">>
        ELSE <<>>)
    \o (IF "driver" \in has
        THEN <<" ", "Driver Version", " ", ":", " ">>
             \o (IF dev = "a" THEN <<"5", "3", "5", ".", "1">> ELSE <<"4", "7", ".", "0">>)
             \o <<"\n">>
        ELSE <<>>)
    \o (IF "cuda" \in has
        THEN <<" ", "CUDA Version", " ", ":", " ">>
             \o (IF dev = "a" THEN <<"1", "2", ".", "2">> ELSE <<"1", "1">>) \o <<"\n">>
        ELSE <<>>)
    \o (IF "mem" \in has
        THEN <<" ", "FB Memory Usage", "\n", " ", " ", "Total", " ", ":", " ">>
             \o (IF dev = "a" THEN <<"8">> ELSE <<"1", "6">>)
             \o <<" ", "MiB", "\n", " ", " ", "Used", " ", ":", " ", "1", " ", "MiB", "\n">>
        ELSE <<>>)
    \o <<" ", "BAR1 Memory Usage", "\n", " ", " ", "Total", " ", ":", " ", "2", " ",
         "MiB", "\n">>
    \o (IF "power" \in has
        THEN <<" ", "Max Power Limit", " ", ":", " ">>
             \o (IF dev = "a" THEN <<"3", "0", "0", ".", "0", "0">> ELSE <<"7", "0">>)
             \o <<" ", "W", "\n">>
        ELSE <<>>)

\* a power limit float() rejects, and a block with a byte that is not UTF-8
InfoBadPower ==
    <<" ", "Product Name", " ", ":", " ", "T", "4", "\n",
      " ", "Max Power Limit", " ", ":", " ", "1", ".", "2", ".", "3", " ", "W", "\n">>
InfoBadByte == <<" ", "Product Name", " ", ":", " ", "0xFF", "\n">>

InfoOutputs ==
    {DeviceText(dev, has) : dev \in {"a", "b"}, has \in SUBSET InfoFields}
        \cup {InfoBadPower, InfoBadByte}

\* the five searches of _get_gpu_info on each text the probe can print,
\* tabulated
Matches ==
    [output \in {DecodeStrict(stdout).text : stdout \in InfoOutputs} |->
        [name |-> name_match(output), driver |-> driver_match(output),
         cuda |-> cuda_match(output), mem |-> mem_match(output),
         power |-> max_watt_match(output)]]

\* _get_gpu_info: the four texts of the info line (name, driver, CUDA, VRAM),
\* the two plots as it leaves them, and the exception it raises, if any
get_gpu_info(output, mem_plot, power_plot) ==
    LET m == Matches[output]
        mp == MemPlotAfter(mem_plot, m.mem)
        pp == PowerPlotAfter(power_plot, m.power)
    IN  [err |-> IF mp.err # "none" THEN mp.err ELSE pp.err,
         text |-> <<GroupOr(m.name), GroupOr(m.driver), GroupOr(m.cuda), GroupOr(m.mem)>>,
         mem_plot |-> mp.plot,
         power_plot |-> IF mp.err # "none" THEN power_plot ELSE pp.plot]

----------------------------------------------------------------------------
\* _workers.py: update_info_panel

Info == "info-panel"

\* update_info_panel from its start to the await of communicate: the panel
\* shows the query text, and create_subprocess_exec raises or the process runs.
InfoStart ==
    /\ info_pc = "start"
    /\ info_panel' = <<"Querying GPU info...">>
    /\ \/ /\ info_pc' = "done"
          /\ outcome' = [outcome EXCEPT ![Info] = "OSError"]
          /\ UNCHANGED <<sess, scope>>
       \/ /\ info_pc' = "communicate"
          /\ sess' = [sess EXCEPT ![Info] = Spawned(TRUE)]
          /\ scope' = [scope EXCEPT ![Info] = Yielded]
          /\ UNCHANGED outcome
    /\ written' = <<>>
    /\ UNCHANGED <<plots, now, info_output, clientVars, pollVars, dmonVars, probeVars, app>>

\* how the body of the scope ends once communicate has returned: RuntimeError
\* for a nonzero exit, UnicodeDecodeError from stdout.decode(), the exception
\* of _get_gpu_info, or normally
InfoBodyEnds(returncode, d, g) ==
    IF returncode # Some(0) \/ ~d.ok \/ g.err # "none" THEN "exception" ELSE "normal"

\* communicate returns (it has no timeout): the process has exited and its
\* stdout, one of `outputs`, is read; the rest of the body and the scope exit
\* run in the same step.
InfoCommunicateReturns(outputs) ==
    /\ info_pc = "communicate"
    /\ sess[Info].state = "exited"
    /\ \E stdout \in outputs :
        LET d == DecodeStrict(stdout)
            g == get_gpu_info(d.text, plots["gpu_memory"], plots["gpu_power"])
            how == InfoBodyEnds(sess[Info].returncode, d, g)
            parsed == sess[Info].returncode = Some(0) /\ d.ok
            sc == ScopeAfterLeave(sess[Info], how)
        IN  /\ info_output' = Some(stdout)
            /\ plots' = IF parsed
                        THEN [plots EXCEPT !["gpu_memory"] = g.mem_plot,
                                           !["gpu_power"] = g.power_plot]
                        ELSE plots
            /\ info_panel' = IF how = "normal" THEN g.text ELSE info_panel
            /\ sess' = [sess EXCEPT ![Info] = ProcessAfterLeave(@)]
            /\ scope' = [scope EXCEPT ![Info] = sc]
            /\ outcome' = [outcome EXCEPT ![Info] = OutcomeOf(sc.raises)]
            /\ written' = LeaveLog(Info, how)
    /\ info_pc' = "done"
    /\ UNCHANGED <<now, clientVars, pollVars, dmonVars, probeVars, app>>

NextInfoFed(outputs) ==
    \/ InfoStart
    \/ InfoCommunicateReturns(outputs)
    \/ ProcExits(Info)

----------------------------------------------------------------------------
\* _monitor.py: on_mount and the workers it starts with run_worker

\* how a worker's coroutine ended, for the pollers from their raised exception
WorkerEnded(w) ==
    CASE w \in Pollers -> IF poll_pc[w] = "raised" THEN "Exception" ELSE "none"
      [] w = "poll_dmon_stats" -> IF dmon_pc = "done" THEN outcome[Dmon] ELSE "none"
      [] OTHER -> IF info_pc = "done" THEN outcome[Info] ELSE "none"

MonitorWorkers == Pollers \cup {"poll_dmon_stats", "update_info_panel"}

\* run_worker is called without exit_on_error, which defaults to True: the
\* application exits when the coroutine of a worker raises an exception
\* (a CancelledError is a cancellation, not an error).
exit_on_error(w) == TRUE

WorkerErrorExits ==
    /\ app = "running"
    /\ \E w \in MonitorWorkers :
        /\ WorkerEnded(w) \notin {"none", "returned", "CancelledError"}
        /\ exit_on_error(w)
    /\ app' = "exited"
    /\ written' = <<>>
    /\ UNCHANGED <<plots, now, clientVars, pollVars, sessVars, dmonVars, probeVars, infoVars>>

----------------------------------------------------------------------------
\* A client of the DataPlot API: any sequence of calls on one plot.

ClientPlot == "gpu_memory"
ClientValues == {Tenths(5), Tenths(75)}
ClientFormatters == {memory_formatter(8), memory_formatter(16)}
ClientUpperLims == {Tenths(100), Tenths(250)}

InitClient ==
    /\ \E history_size \in 0 .. MaxCap : InitPlots(history_size)
    /\ InitPollers(DefaultMaxRetries, {})
    /\ InitSessions({})

ClientUpdateData ==
    /\ Len(appended) < MaxAppends
    /\ \E value \in ClientValues, t \in ClockReadings :
        /\ now' = t
        /\ plots' = [plots EXCEPT ![ClientPlot] = update_data(@, t, value)]
        /\ appended' = Append(appended, <<t, value>>)
    /\ UNCHANGED <<firstFormatter, firstUpperLim, written, pollVars, sessVars, dmonVars, probeVars, infoVars, app>>

ClientSetValueFormatter ==
    /\ \E f \in ClientFormatters :
        /\ plots' = [plots EXCEPT ![ClientPlot] = set_value_formatter(@, f)]
        /\ firstFormatter' = IF firstFormatter = None THEN Some(f) ELSE firstFormatter
    /\ UNCHANGED <<now, appended, firstUpperLim, written, pollVars, sessVars, dmonVars, probeVars, infoVars, app>>

ClientSetYUpperLim ==
    /\ \E u \in ClientUpperLims :
        /\ plots' = [plots EXCEPT ![ClientPlot] = set_y_upper_lim(@, u)]
        /\ firstUpperLim' = IF firstUpperLim = None THEN Some(u) ELSE firstUpperLim
    /\ UNCHANGED <<now, appended, firstFormatter, written, pollVars, sessVars, dmonVars, probeVars, infoVars, app>>

NextClient ==
    \/ ClientUpdateData
    \/ ClientSetValueFormatter
    \/ ClientSetYUpperLim

SpecPlot == InitClient /\ [][NextClient]_vars

\* One poller running by itself.
InitPoll ==
    /\ \E history_size \in 1 .. MaxCap : InitPlots(history_size)
    /\ \E mr \in 1 .. MaxRetriesArg, w \in Pollers : InitPollers(mr, {w})
    /\ InitSessions({})

NextPoll ==
    \E w \in Pollers :
        \/ PollCycleOk(w)
        \/ PollCycleFails(w)
        \/ PollSleepDone(w)

SpecPoll == InitPoll /\ [][NextPoll]_vars

\* The dmon worker running by itself.
InitDmon ==
    /\ InitPlots(DmonCap)
    /\ InitPollers(DefaultMaxRetries, {})
    /\ InitSessions({"poll_dmon_stats"})

NextDmon == NextDmonFed(DmonLines, ShortBadRun)

SpecDmon == InitDmon /\ [][NextDmon]_vars

\* The dmon worker with plots whose rendering can raise.
NextDmonRender ==
    \/ NextDmon
    \/ \E line \in {LineOk1, LineOk2} : ConsumeStdoutRenderRaises(line, ShortBadRun)

SpecDmonRender == InitDmon /\ [][NextDmonRender]_vars

\* The dmon worker on a feed of one well-formed and one malformed line, with
\* runs of malformed lines past max_parse_errors.
LongFeedLines == {LineOk1, LineShort}

NextDmonLong == NextDmonFed(LongFeedLines, MaxBadRun)

SpecDmonLong == InitDmon /\ [][NextDmonLong]_vars

\* The sessions: the dmon worker on a feed of well-formed lines, and calls of
\* subprocess_communicate, side by side.
SessionFeedLines == {LineOk1}

SessionOutputs == {OutOneRow, OutBadByte}

NextSessions ==
    \/ NextDmonFed(SessionFeedLines, ShortBadRun)
    \/ NextProbeFed(SessionOutputs)

SpecSessions == InitDmon /\ [][NextSessions]_vars

\* The device-info worker by itself, on every block.
InitInfo ==
    /\ InitPlots(DmonCap)
    /\ InitPollers(DefaultMaxRetries, {})
    /\ InitSessions({"update_info_panel"})

NextInfo == NextInfoFed(InfoOutputs)

SpecInfo == InitInfo /\ [][NextInfo]_vars

\* The monitor after on_mount, while the application runs: a poller, the
\* device-info worker and the dmon worker side by side, the dmon process
\* running on and printing well-formed lines.
InitMonitor ==
    /\ InitPlots(DmonCap)
    /\ \E w \in Pollers : InitPollers(DefaultMaxRetries, {w})
    /\ InitSessions({"poll_dmon_stats", "update_info_panel"})

MonitorInfoOutputs == {DeviceText("a", InfoFields)}

NextMonitor ==
    \/ /\ app = "running"
       /\ \/ NextPoll
          \/ DmonStart
          \/ ConsumeStdoutLine(LineOk1, ShortBadRun)
          \/ NextInfoFed(MonitorInfoOutputs)
    \/ WorkerErrorExits

SpecMonitor == InitMonitor /\ [][NextMonitor]_vars

\* The three users of subprocess_lifespan side by side: the dmon worker on a
\* feed of comment lines, the process-list refresh called again and again, and
\* the device-info probe.
InitLifetimes ==
    /\ InitPlots(DmonCap)
    /\ InitPollers(DefaultMaxRetries, {})
    /\ InitSessions({"poll_dmon_stats", "update_info_panel"})

LifetimeOutputs == {OutOneRow, OutTwoRows}

NextLifetimes ==
    \/ NextDmonFed({LineComment}, ShortBadRun)
    \/ NextProbeFed(LifetimeOutputs)
    \/ NextInfoFed(MonitorInfoOutputs)

SpecLifetimes == InitLifetimes /\ [][NextLifetimes]_vars

\* The periodic refresh of the process list by itself: one call of
\* update_process_list after the other, on every output.
InitProcessList ==
    /\ InitPlots(DmonCap)
    /\ InitPollers(DefaultMaxRetries, {})
    /\ InitSessions({})

NextProcessList == NextProbeFed(ProbeOutputs)

SpecProcessList == InitProcessList /\ [][NextProcessList]_vars

----------------------------------------------------------------------------
\* C1: after N appends to a series of capacity C its length is min(N, C), never
\* more than C, and the retained points are the C most recent ones in append order.
C1_BoundedFifo ==
    LET d == plots[ClientPlot].data
        C == plots[ClientPlot].maxlen
        N == Len(appended)
    IN  /\ Len(d) = Min(N, C)
        /\ Len(d) <= C
        /\ d = SubSeq(appended, N - Len(d) + 1, N)

\* C1 witness: more appends than the capacity, and the oldest point is gone.
C1_Witness ==
    LET d == plots[ClientPlot].data
    IN  /\ plots[ClientPlot].maxlen = 2
        /\ Len(appended) = 4
        /\ Len(d) = 2
        /\ d[1] = appended[3]
        /\ appended[1] # appended[3]

\* C7: binding the formatter or the upper bound is first-writer-wins: after two
\* calls with different values the value of the first call is in effect.
C7_FirstWriterWins ==
    /\ firstFormatter # None => plots[ClientPlot].value_formatter = firstFormatter
    /\ firstUpperLim # None => plots[ClientPlot].y_upper_lim = firstUpperLim

C3_OnlyConsecutiveFailuresCount ==
    \A w \in Pollers :
        /\ consec[w] = 0 => retries[w] = 0
        /\ (max_retries = DefaultMaxRetries /\ poll_pc[w] = "raised") => consec[w] >= 3

Ops(n) == {sess[n].ops[i] : i \in 1 .. Len(sess[n].ops)}

\* C4: when the dmon worker was cancelled while it awaited its two read loops,
\* its process has been killed and reaped by the time the worker has finished.
C4_CancelledInReadReaps ==
    (dmon_pc = "done" /\ scope[Dmon].left = "cancel") =>
        /\ sess[Dmon].state = "exited"
        /\ scope[Dmon].st = "closed"
        /\ ~scope[Dmon].exited_at_exit => sess[Dmon].ops = <<"kill", "wait">>

\* C4 witness: a worker cancelled in its reads has finished, its read loops
\* cancelled and its process killed and reaped.
C4_Witness ==
    /\ dmon_pc = "done"
    /\ scope[Dmon].left = "cancel"
    /\ outcome[Dmon] = "CancelledError"
    /\ child_pc["consume_stdout"] = "cancelled"
    /\ sess[Dmon].ops = <<"kill", "wait">>
    /\ sess[Dmon].returncode = Some(KilledCode)

C6_ProbeNeverRaises ==
    (probe_pc = "done" /\ scope[Probe].left \in {"normal", "return"}) =>
        /\ outcome[Probe] = "returned"
        /\ probe_result # None =>
                (sess[Probe].returncode = Some(0) /\ scope[Probe].left = "normal")

\* the lines of the feed that have fewer than six fields or a non-numeric field
\* at index 1, 2, 4 or 5
MalformedLines ==
    {LineBlank, LineShort, LineBadPower, LineBadTemp, LineBadUtil, LineBadMem}

\* C8: reading a malformed line increments the parse-failure counter and nothing
\* else: no series, no failure counter and no task changes, and consume_stdout is
\* again suspended in readline.
C8_MalformedIsRecoverable ==
    [][\A line \in MalformedLines :
        ConsumeStdoutLine(line, ShortBadRun) =>
            /\ parse_error_count' = parse_error_count + 1
            /\ plots' = plots
            /\ retries' = retries
            /\ child_pc' = child_pc
            /\ child_pc'["consume_stdout"] = "read"
            /\ dmon_pc' = dmon_pc
            /\ outcome' = outcome
            /\ scope' = scope
            /\ sess' = sess]_vars

\* C8 witness: two malformed lines were read after a well-formed one, and
\* consume_stdout is reading on.
C8_Witness ==
    /\ parse_error_count = 2
    /\ written = <<LogEntry("", DecodedLine(LineBadTemp))>>
    /\ plots["gpu_power"].data # <<>>
    /\ child_pc["consume_stdout"] = "read"
    /\ dmon_pc = "gather"

Last(q) == q[Len(q)]

\* the warning of consume_stdout is among the entries the step wrote
WarningWritten(w) ==
    \E i \in 1 .. Len(w) : w[i][1] = "Too many parse errors in dmon output:"

\* C9: every malformed line adds one to the parse-failure counter and leaves the
\* read loop reading, with the warning logged exactly when the counter is 20 or
\* more; every well-formed line, whatever the counter, is appended to the four
\* series and resets the counter to 0.
C9_WarningDoesNotStop ==
    [][/\ ConsumeStdoutLine(LineShort, MaxBadRun) =>
            /\ parse_error_count' = parse_error_count + 1
            /\ WarningWritten(written') <=> parse_error_count' >= 20
            /\ child_pc'["consume_stdout"] = "read"
            /\ dmon_pc' = dmon_pc
       /\ ConsumeStdoutLine(LineOk1, MaxBadRun) =>
            /\ parse_error_count' = 0
            /\ Last(plots'["gpu_power"].data)[2] = 45
            /\ Last(plots'["gpu_temperature"].data)[2] = Tenths(30)
            /\ Last(plots'["gpu_utilization"].data)[2] = Tenths(7)
            /\ Last(plots'["gpu_memory"].data)[2] = Tenths(2)
            /\ child_pc'["consume_stdout"] = "read"]_vars

\* C9 witness: after the warning was logged a well-formed line was appended and
\* the counter is 0 again.
C9_Witness ==
    /\ warned
    /\ parse_error_count = 0
    /\ written = <<LogEntry("", DecodedLine(LineOk1))>>
    /\ plots["gpu_memory"].data # <<>>
    /\ child_pc["consume_stdout"] = "read"

\* C10: the dmon worker does not end on a failure of its command (a spawn failure
\* or a nonzero exit) other than by the terminal error of retry exhaustion.
C10_CommandFailureIsRetried ==
    LET commandFailed ==
            \/ outcome[Dmon] = "OSError"
            \/ sess[Dmon].returncode = Some(1)
    IN  (dmon_pc = "done" /\ commandFailed) => outcome[Dmon] = "SysMonitorWorkerError"

\* the step in which the process list's call of communicate returned after an
\* exit with code 0
ListedFrom(stdout) ==
    /\ probe_pc = "communicate"
    /\ probe_pc' = "done"
    /\ sess[Probe].returncode = Some(0)
    /\ probe_stdout' = Some(stdout)

Row(pid, name, memory) == <<pid, name, memory>>

CommaCount(line) == Cardinality({i \in 1 .. Len(line) : line[i] = ","})

\* C11: from an output without the sentinel update_process_list makes one row
\* per line of three comma-separated fields, in input order and stripped, with
\* " MB" after the memory; every other line adds no row, is logged once and
\* does not stop the lines after it.
C11_RowsPerWellFormedLine ==
    [][/\ ListedFrom(OutTwoRows) =>
            /\ proc_table' =
                <<Row(<<"1", "2", "3", "4">>, <<"p", "r", "o", "c", "-", "a">>,
                      <<"5", "1", "2", " ", "M", "B">>),
                  Row(<<"7">>, <<"p", "r", "o", "c", "-", "b">>,
                      <<"6", "4", " ", "M", "B">>)>>
            /\ written' = <<>>
       /\ ListedFrom(OutOneRowPadded) =>
            /\ proc_table' = <<Row(<<"7">>, <<"p">>, <<"6", "4", " ", "M", "B">>)>>
            /\ written' = <<>>
       /\ ListedFrom(OutCrLf) =>
            /\ proc_table' =
                <<Row(<<"9">>, <<"r">>, <<"2", " ", "M", "B">>),
                  Row(<<"7">>, <<"p">>, <<"6", "4", " ", "M", "B">>)>>
            /\ written' = <<>>
       /\ ListedFrom(OutInnerSpaces) =>
            /\ proc_table' =
                <<Row(<<"3">>, <<"s", " ", "t">>, <<"1", "0", " ", "M", "B">>)>>
            /\ written' = <<>>
       /\ ListedFrom(OutTabs) =>
            /\ proc_table' = <<Row(<<"4">>, <<"u">>, <<"8", " ", "M", "B">>)>>
            /\ written' = <<>>
       /\ ListedFrom(OutTwoFields) =>
            /\ proc_table' = <<Row(<<"2">>, <<"w">>, <<"3", "2", " ", "M", "B">>)>>
            /\ written' =
                <<LogEntry("WARN: Malformed process line:", <<"6", ",", "v">>)>>
       /\ ListedFrom(OutCommaInName) =>
            /\ proc_table' = <<>>
            /\ written' =
                <<LogEntry("WARN: Malformed process line:",
                           <<"5", ",", "a", ",", "b", ",", "3">>)>>
       /\ ListedFrom(OutMixed) =>
            /\ proc_table' =
                <<Row(<<"7">>, <<"p">>, <<"6", "4", " ", "M", "B">>),
                  Row(<<"8">>, <<"q">>, <<"1", " ", "M", "B">>)>>
            /\ written' =
                <<LogEntry("WARN: Malformed process line:", <<"b", "a", "d">>),
                  LogEntry("WARN: Malformed process line:",
                           <<"1", ",", "a", ",", "b", ",", "2">>),
                  LogEntry("WARN: Malformed process line:", <<>>)>>
       /\ \A stdout \in ProbeOutputs :
            (ListedFrom(stdout) /\ probe_result' # None
                    /\ ~Contains(stdout, Sentinel) /\ probe_result'[1] # <<>>) =>
                LET lines == SplitLines(probe_result'[1])
                    good == {i \in 1 .. Len(lines) : CommaCount(lines[i]) = 2}
                IN  /\ Len(proc_table') = Cardinality(good)
                    /\ Len(written') = Len(lines) - Cardinality(good)]_vars

\* C11 witness: the table made from an output of two well-formed lines with
\* three malformed ones between them.
C11_Witness ==
    /\ probe_pc = "done"
    /\ probe_stdout = Some(OutMixed)
    /\ Len(proc_table) = 2
    /\ proc_table[2] = Row(<<"8">>, <<"q">>, <<"1", " ", "M", "B">>)
    /\ Len(written) = 3

\* C12: from an output that is empty or has the sentinel on any line
\* update_process_list leaves exactly the placeholder row in the table and
\* logs nothing.
C12_SentinelMeansEmpty ==
    [][\A stdout \in {OutEmpty, OutBlank, OutSentinel, OutSentinelSecondLine} :
        ListedFrom(stdout) =>
            /\ proc_table' = <<(<<(<<"[i]No running processes[/i]">>)>>)>>
            /\ written' = <<>>
            /\ outcome'[Probe] = "returned"]_vars

\* C12 witness: the placeholder row made from an output with a process line
\* before the line of the sentinel.
C12_Witness ==
    /\ probe_pc = "done"
    /\ probe_stdout = Some(OutSentinelSecondLine)
    /\ proc_table = <<PlaceholderRow>>
    /\ written = <<>>

\* the step appended one point of value v, stamped with some reading of the
\* clock, to the series of plot p
PointAdded(p, v) ==
    \E t \in 0 .. MaxClock :
        plots'[p].data = DequeTrim(Append(plots[p].data, <<t, v>>), plots[p].maxlen)

\* consume_stdout read `line` and ran its loop body on it (the log entry of the
\* line, which every such step writes, is compared first)
ReadLine(line) ==
    /\ written' = <<LogEntry("", DecodedLine(line))>>
    /\ ConsumeStdoutLine(line, ShortBadRun)

\* C13: a line whose fields 1, 2, 4 and 5 are numeric appends exactly one point
\* to each of the power, temperature, utilization and memory series, with the
\* value of field 1, 2, 4 and 5 respectively, and touches no other series.
C13_FieldsToSeries ==
    [][/\ ReadLine(LineOk1) =>
            /\ PointAdded("gpu_power", 45)
            /\ PointAdded("gpu_temperature", Tenths(30))
            /\ PointAdded("gpu_utilization", Tenths(7))
            /\ PointAdded("gpu_memory", Tenths(2))
       /\ ReadLine(LineOk2) =>
            /\ PointAdded("gpu_power", Tenths(12))
            /\ PointAdded("gpu_temperature", Tenths(41))
            /\ PointAdded("gpu_utilization", Tenths(99))
            /\ PointAdded("gpu_memory", Tenths(10))
       /\ (\E line \in {LineOk1, LineOk2} : ReadLine(line)) =>
            /\ plots'["cpu_usage"] = plots["cpu_usage"]
            /\ plots'["sys_memory"] = plots["sys_memory"]]_vars

\* C13 witness: the four series after the line " 1  12 41 0 99 10".
C13_Witness ==
    /\ written = <<LogEntry("", DecodedLine(LineOk2))>>
    /\ Last(plots["gpu_power"].data)[2] = Tenths(12)
    /\ Last(plots["gpu_temperature"].data)[2] = Tenths(41)
    /\ Last(plots["gpu_utilization"].data)[2] = Tenths(99)
    /\ Last(plots["gpu_memory"].data)[2] = Tenths(10)

\* the value DeviceText prints for a field of a device, and what the code is to
\* derive from it
PrintedValue(dev, field) ==
    CASE field = "name" -> IF dev = "a" THEN <<"R", " ", "A", "1">> ELSE <<"T", "4">>
      [] field = "driver" ->
            IF dev = "a" THEN <<"5", "3", "5", ".", "1">> ELSE <<"4", "7", ".", "0">>
      [] field = "cuda" -> IF dev = "a" THEN <<"1", "2", ".", "2">> ELSE <<"1", "1">>
      [] field = "mem" -> IF dev = "a" THEN <<"8", " ", "MiB">> ELSE <<"1", "6", " ", "MiB">>

TotalBytes(dev) == IF dev = "a" THEN 8000000 ELSE 16000000

\* 1.1 times the power limit, in tenths
UpperLimit(dev) == IF dev = "a" THEN 3300 ELSE 770

Reported(dev, has, field) ==
    IF field \in has THEN PrintedValue(dev, field) ELSE <<"N/A">>

\* C15: for every subset of the five fields missing from the block, once
\* update_info_panel is done after an exit with code 0 every missing displayed
\* field reads "N/A" and every present one its value, the memory formatter is
\* set exactly when the memory total is present, the upper limit of the power
\* plot exactly when the power limit is, and no exception was raised.
C15_FieldsAreIndependent ==
    \A dev \in {"a", "b"}, has \in SUBSET InfoFields :
        (info_pc = "done" /\ info_output = Some(DeviceText(dev, has))
                /\ sess[Info].returncode = Some(0)) =>
            /\ outcome[Info] = "returned"
            /\ info_panel = <<Reported(dev, has, "name"), Reported(dev, has, "driver"),
                              Reported(dev, has, "cuda"), Reported(dev, has, "mem")>>
            /\ plots["gpu_memory"].value_formatter =
                    IF "mem" \in has THEN Some(memory_formatter(TotalBytes(dev))) ELSE None
            /\ plots["gpu_power"].y_upper_lim =
                    IF "power" \in has THEN Some(UpperLimit(dev)) ELSE None

\* C15 witness: a block without driver version and memory total was parsed.
C15_Witness ==
    /\ info_pc = "done"
    /\ info_output = Some(DeviceText("a", {"name", "cuda", "power"}))
    /\ info_panel = <<(<<"R", " ", "A", "1">>), (<<"N/A">>), (<<"1", "2", ".", "2">>),
                      (<<"N/A">>)>>
    /\ plots["gpu_memory"].value_formatter = None
    /\ plots["gpu_power"].y_upper_lim = Some(3300)

\* C20: update_info_panel, once its command has exited with a nonzero code,
\* ends without an exception raised to its caller.
C20_InfoProbeNeverRaises ==
    (info_pc = "done" /\ sess[Info].returncode = Some(1)) => outcome[Info] = "returned"

\* C14: after a poller has ended by its terminal failure the application is
\* still running (so that the other workers can go on).
C14_TerminalFailureIsLocal ==
    (\E w \in Pollers : poll_pc[w] = "raised") => app = "running"

\* a step of the worker that feeds the series of plot p
FeederStep(p) ==
    CASE p = "cpu_usage" ->
            PollCycleOk("poll_cpu_percent") \/ PollCycleFails("poll_cpu_percent")
      [] p = "sys_memory" ->
            PollCycleOk("poll_memory_percent") \/ PollCycleFails("poll_memory_percent")
      [] OTHER -> ConsumeStdoutLine(LineOk1, ShortBadRun)

\* C17: every step that changes a series (its points, its formatter or its
\* upper limit) is a step of the worker that feeds it.
C17_OnlyTheFeederWrites ==
    [][\A p \in PlotIds : plots'[p] # plots[p] => FeederStep(p)]_vars

\* C16: in every series the timestamps of the stored points are non-decreasing
\* in buffer order.
C16_TimestampsNonDecreasing ==
    \A p \in PlotIds :
        \A i \in 1 .. Len(plots[p].data) - 1 :
            plots[p].data[i][1] <= plots[p].data[i + 1][1]

\* two points taken at different instants of the clock are stored, and the
\* poller has gone through more cycles than the series holds points
C16_Witness ==
    \E w \in Pollers :
        /\ Len(plots[PollerPlot(w)].data) = 2
        /\ plots[PollerPlot(w)].data[1][1] < plots[PollerPlot(w)].data[2][1]
        /\ poll_pc[w] = "sleep"
        /\ retries[w] > 0

\* C18: the two read loops are concurrent. As long as the stdout loop waits in
\* readline and its stream is open, a line that arrives on stdout is read and
\* processed, whatever the stderr loop is doing (waiting for a line that never
\* comes included); and the same for stderr while stdout is silent.
C18_LoopsAreConcurrent ==
    /\ (child_pc["consume_stdout"] = "read" /\ ~StreamEof("consume_stdout"))
            => /\ ENABLED ConsumeStdoutLine(LineOk1, ShortBadRun)
               /\ ENABLED ConsumeStdoutLine(LineComment, ShortBadRun)
    /\ (child_pc["consume_stderr"] = "read" /\ ~StreamEof("consume_stderr"))
            => ENABLED ConsumeStderrLine

\* both loops wait on open streams; a stdout line has been processed while the
\* stderr loop never ended, and the last step drained a stderr line while the
\* stdout loop was waiting
C18_Witness ==
    /\ dmon_pc = "gather"
    /\ \A c \in Children : child_pc[c] = "read" /\ ~StreamEof(c)
    /\ plots["gpu_power"].data # <<>>
    /\ \E line \in StderrLines : written = <<LogEntry("DMON STDERR:", DecodedLine(line))>>

\* C19: the worker leaves the session scope only after both read loops have
\* finished: once the scope of the dmon session is closed, no read loop is
\* still waiting in readline.
C19_LeavesAfterBothLoops ==
    scope[Dmon].st = "closed" => \A c \in Children : child_pc[c] # "read"

\* C21: over a run of the monitor the value formatter of a series changes only
\* from unset to set, and so does the upper limit of its display: a formatter
\* or a limit that is set is never written over with another one.
C21_BoundOnce ==
    [][\A p \in PlotIds :
        /\ plots'[p].value_formatter # plots[p].value_formatter
                => plots[p].value_formatter = None /\ plots'[p].value_formatter # None
        /\ plots'[p].y_upper_lim # plots[p].y_upper_lim
                => plots[p].y_upper_lim = None /\ plots'[p].y_upper_lim # None]_vars

\* the device-info probe has bound the formatter of the memory series and the
\* limit of the power series, the dmon worker has appended to them, and the
\* memory poller has gone through a failed and a successful cycle with its
\* formatter bound
C21_Witness ==
    /\ info_pc = "done"
    /\ plots["gpu_memory"].value_formatter # None
    /\ plots["gpu_power"].y_upper_lim # None
    /\ plots["gpu_memory"].data # <<>>
    /\ plots["sys_memory"].value_formatter # None
    /\ plots["sys_memory"].data # <<>>
    /\ retries["poll_memory_percent"] > 0
    /\ poll_pc["poll_memory_percent"] = "run"

\* C22: when a stream of the dmon session is missing after the launch, no read
\* loop is ever started and nothing is appended, the process is killed in the
\* step that finds the stream missing, and it has been killed and reaped (and
\* nothing else was done to it) when the worker has returned.
C22_MissingStreamClosesSession ==
    ~sess[Dmon].streams_ok =>
        /\ \A c \in Children : child_pc[c] = "none"
        /\ \A p \in {"gpu_power", "gpu_utilization", "gpu_temperature", "gpu_memory"} :
                plots[p].data = <<>>
        /\ sess[Dmon].ops # <<>> /\ sess[Dmon].ops[1] = "kill"
        /\ dmon_pc # "gather"
        /\ (dmon_pc = "done" /\ outcome[Dmon] = "returned")
                => /\ sess[Dmon].state = "exited"
                   /\ sess[Dmon].ops = <<"kill", "wait">>

\* the worker has returned from a session whose stream was missing
C22_Witness ==
    /\ ~sess[Dmon].streams_ok
    /\ dmon_pc = "done"
    /\ outcome[Dmon] = "returned"
    /\ sess[Dmon].returncode = Some(KilledCode)

\* C23: a failed sample cycle that leaves the counter below the threshold adds
\* exactly one to the counter, writes one log entry, appends nothing to the
\* series and leaves the poller in its sleep; and the poller is never in a
\* cycle right after a cycle (a sleep lies between two cycles).
C23_FailedCycleBacksOff ==
    [][\A w \in Pollers :
        /\ (retries'[w] # retries[w] /\ ~RetryExhausted(retries'[w], max_retries))
            => /\ retries'[w] = retries[w] + 1
               /\ Len(written') = 1
               /\ plots'[PollerPlot(w)].data = plots[PollerPlot(w)].data
               /\ poll_pc'[w] = "sleep"
        /\ (poll_pc[w] = "run" /\ poll_pc'[w] # poll_pc[w]) => poll_pc'[w] # "run"
        /\ (poll_pc[w] # "run" /\ poll_pc'[w] = "run") => poll_pc[w] = "sleep"]_vars

\* a process is launched for session n in this step
Launched(n) == sess'[n].state = "running" /\ sess[n].state # "running"

\* C24: sessions are never reused. A launch gives a process nothing was done to
\* yet (but the kill of a scope left in the same step); the dmon worker and the
\* device-info probe launch at most once and hold their session while they
\* work in it; every call of the process-list probe launches a process of its
\* own; and when a probe has ended its process is no longer running and its
\* scope is closed.
C24_SessionsAreNotReused ==
    /\ [](/\ dmon_pc \in {"gather", "wait"}
                => sess[Dmon].state # "none" /\ scope[Dmon].st \in {"body", "wait"}
          /\ info_pc = "communicate"
                => sess[Info].state # "none" /\ scope[Info].st = "body"
          /\ \A n \in {Probe, Info} :
                (IF n = Probe THEN probe_pc ELSE info_pc) = "done"
                    => /\ sess[n].state \in {"none", "exited"}
                       /\ scope[n].st \in {"none", "closed"})
    /\ [][/\ \A n \in Names :
                Launched(n) =>
                    /\ sess'[n].returncode = None
                    /\ sess'[n].ops \in {<<>>, <<"kill">>}
                    /\ ~sess'[n].stdout_eof /\ ~sess'[n].stderr_eof
                    /\ n # Probe => sess[n].state = "none"
          /\ Launched(Probe) => probe_pc \in {"idle", "done"}
          /\ (probe_pc \in {"idle", "done"} /\ probe_pc' = "communicate")
                => Launched(Probe)]_vars

\* the process-list probe is in its second call, on a new process, after a
\* first call that ended; the dmon worker holds its session and the
\* device-info probe has closed its own
C24_Witness ==
    /\ probe_pc = "communicate"
    /\ proc_table # <<>>
    /\ sess[Probe] = Spawned(TRUE)
    /\ dmon_pc = "gather"
    /\ sess[Dmon].state = "running"
    /\ info_pc = "done"
    /\ sess[Info].state = "exited"

\* C25: the dmon worker updates its four series all or nothing: in every state
\* the power, utilization, temperature and memory series hold the same number
\* of points.
C25_FourSeriesTogether ==
    \A p, q \in {"gpu_power", "gpu_utilization", "gpu_temperature", "gpu_memory"} :
        Len(plots[p].data) = Len(plots[q].data)

\* C26: the refresh of the process table is atomic. A step that changes the
\* table is the step in which a call of the probe returns, and the table it
\* leaves is the table made from that call's result alone, whatever the table
\* held before; in every other step, of a refresh in flight or of another
\* worker, the table is as it was.
C26_RefreshIsAtomic ==
    [][proc_table' # proc_table =>
            /\ probe_pc # "done" /\ probe_pc' = "done"
            /\ outcome'[Probe] = "returned"
            /\ proc_table' = ProcessListAfter("returned", probe_result', <<>>).table]_vars

\* a refresh is in flight while the table holds the two rows of an earlier
\* result and the dmon worker is reading
C26_Witness ==
    /\ probe_pc = "communicate"
    /\ Len(proc_table) = 2
    /\ dmon_pc = "gather"
    /\ child_pc["consume_stdout"] = "read"

\* a call of the probe ends in this step
ProbeEnds == probe_pc' = "done" /\ (probe_pc # "done" \/ outcome'[Probe] = "OSError")

\* C27: when a call of the probe ends with no result (timeout, nonzero exit)
\* the table is exactly the placeholder row, whatever it held, and no failure
\* of the update is logged; when the call raises (spawn or decode failure, or
\* the error of the scope) the table is as it was and the last log entry is
\* the failure, written by the except clause of update_process_list, which
\* therefore ends without an exception.
C27_FailedProbeAndTable ==
    [][ProbeEnds =>
        /\ (outcome'[Probe] = "returned" /\ probe_result' = None)
            => /\ proc_table' = <<(<<(<<"[i]No running processes[/i]">>)>>)>>
               /\ \A i \in 1 .. Len(written') :
                    written'[i][1] # "Process list update failed:"
        /\ outcome'[Probe] # "returned"
            => /\ proc_table' = proc_table
               /\ written' # <<>>
               /\ written'[Len(written')] =
                    LogEntry("Process list update failed:", <<outcome'[Probe]>>)]_vars

\* a call that timed out has ended (its process was killed and waited for)
\* and the table holds the placeholder row
C27_Witness ==
    /\ probe_pc = "done"
    /\ outcome[Probe] = "returned"
    /\ probe_result = None
    /\ scope[Probe].left = "return"
    /\ sess[Probe].ops = <<"kill", "wait">>
    /\ proc_table = <<PlaceholderRow>>

ScopeErrors(n) ==
    {i \in 1 .. Len(written') : written'[i] = LogEntry("error:", <<n>>)}

\* the worker or call that entered the scope of session n has ended
CallerEnded(n) ==
    CASE n = Dmon -> dmon_pc = "done"
      [] n = Probe -> probe_pc = "done"
      [] OTHER -> info_pc = "done"

====
